---- MODULE Spec2Model ----
(***************************************************************************)
(* PlacementPro (src/app.py): the matching-and-scheduling core.            *)
(*                                                                         *)
(* The MongoDB collections are sets of documents, each with a unique id    *)
(* (the ObjectId, drawn from a counter that never reuses a value).  One    *)
(* store operation (find_one, insert_one, update_one, delete_one) is one   *)
(* atomic step; a request handler that issues several store operations is  *)
(* one action where requests run one after another, and one action per     *)
(* store operation where the claim is about interleaved requests.          *)
(***************************************************************************)
EXTENDS Integers, Sequences, FiniteSets, TLC

\* ------------------------------------------------------------------ bounds
MaxSlots == 2          \* mentorship slots ever created
MaxBookReqs == 2       \* booking requests issued
MaxApps == 2           \* application documents ever created
MaxApplyReqs == 2      \* apply requests issued
MaxInterviews == 3     \* interview documents ever created
MaxDrives == 2         \* drive documents ever created
MaxRawLen == 3         \* characters of a skill-gap request's user_skills
MaxSchedReqs == 2      \* interleaved schedule requests issued
MaxFaqs == 9           \* faq documents ever created, the seeded eight included

\* ------------------------------------------------------------- value sets
None == "None"         \* Python None / a missing field

Students == {"s1", "s2", "s3"}     \* ids of the db.students documents
Mentors == {"m1", "m2"}            \* ids of the db.alumni documents

\* raw datetime-local form values: two well-formed, one empty, one malformed
RawTimes == {"2024-05-01T10:00", "2024-05-01T11:00", "", "tomorrow"}
MeetingLinks == {"meet/1"}

BookReqs == 1..MaxBookReqs

ApplyReqs == 1..MaxApplyReqs
SchedReqs == 1..MaxSchedReqs

VARIABLES
    mentorship_slots,   \* db.mentorship_slots: set of documents
    next_slot_id,       \* next fresh id of db.mentorship_slots
    book_req,           \* the booking requests, each with its position
    students,           \* db.students: student id -> profile document
    drives,             \* db.drives: set of documents
    applications,       \* db.applications: set of documents
    next_app_id,        \* next fresh id of db.applications
    apply_req,          \* the apply requests, each with its position
    interviews,         \* db.interviews: set of documents
    next_interview_id,  \* next fresh id of db.interviews
    form,               \* request.form of the last scheduler or skill-gap
                        \* request
    flash,              \* the message the last scheduler request flashed
    rendered,           \* the context of the last rendered eligibility or
                        \* skill-gap page, or the chatbot's JSON reply
    faqs,               \* db.faqs: set of documents
    next_faq_id,        \* next fresh id of db.faqs
    mailer,             \* the sends of the last notification batch, in order,
                        \* each with its recipient and whether it went through
    sched_req           \* the interleaved schedule requests, each with its
                        \* position and local variables

bookVars == <<mentorship_slots, next_slot_id, book_req>>
faqVars == <<faqs, next_faq_id>>
profileVars == <<students, drives, rendered, faqVars, mailer, sched_req>>
appVars == <<applications, next_app_id, apply_req>>
schedVars == <<interviews, next_interview_id, form, flash>>
vars == <<bookVars, profileVars, appVars, schedVars>>

\* ----------------------------------------------------------------- helpers

\* parse_dt's None (an empty or malformed value); a datetime is never falsy
NoTime == 0

\* datetime.strptime(s, '%Y-%m-%dT%H:%M') if s else None; None on any failure.
\* A point in time is the minute of the day.
parse_dt(s) ==
    CASE s = "2024-05-01T10:00" -> 600
      [] s = "2024-05-01T11:00" -> 660
      [] OTHER -> NoTime

\* db.students.find_one({'user_id': session user}): register gives every
\* student user one document, identified here with its user; sid(s) is its id.
get_student(u) == IF u \in DOMAIN students THEN u ELSE None

\* db.alumni.find_one({'user_id': session user})
get_alumni_profile(u) == IF u \in Mentors THEN u ELSE None

\* the first document of a find, in insertion (id) order
FirstDoc(docs) == CHOOSE d \in docs : \A e \in docs : d.id <= e.id

\* --------------------------------------------------- mentorship: the store

\* the filter {'_id': oid(slot_id), 'booked_by': None}
BookFilter_IdOnly(doc, slot_id) == doc.id = slot_id

BookFilter(doc, slot_id) == doc.id = slot_id /\ doc.booked_by = None

\* update_one(filter, {'$set': {'booked_by': sid(s)}}): one atomic step at
\* the store; the result carries modified_count.
UpdateOneBook_Overwrite(slots, slot_id, student) ==
    LET m == {d \in slots : d.id = slot_id} IN
    IF m = {} THEN [docs |-> slots, modified_count |-> 0]
    ELSE LET d == FirstDoc(m) IN
         [docs |-> (slots \ {d}) \cup {[d EXCEPT !.booked_by = student]},
          modified_count |-> IF d.booked_by = student THEN 0 ELSE 1]

UpdateOneBook_Upsert(slots, slot_id, student) ==
    LET m == {d \in slots : BookFilter(d, slot_id)} IN
    IF m = {}
    THEN [docs |-> slots \cup {[id |-> slot_id, alumni_id |-> None,
                                 available_time |-> NoTime,
                                 meeting_link |-> "", booked_by |-> student]},
          modified_count |-> 0]
    ELSE LET d == FirstDoc(m) IN
         [docs |-> (slots \ {d}) \cup {[d EXCEPT !.booked_by = student]},
          modified_count |-> IF d.booked_by = student THEN 0 ELSE 1]

UpdateOneBook_Many(slots, slot_id, student) ==
    LET m == {d \in slots : BookFilter(d, slot_id)} IN
    IF m = {} THEN [docs |-> slots, modified_count |-> 0]
    ELSE [docs |-> {IF d.booked_by = None
                    THEN [d EXCEPT !.booked_by = student] ELSE d : d \in slots},
          modified_count |-> 1]

UpdateOneBook(slots, slot_id, student) ==
    LET m == {d \in slots : BookFilter(d, slot_id)} IN
    IF m = {} THEN [docs |-> slots, modified_count |-> 0]
    ELSE LET d == FirstDoc(m) IN
         [docs |-> (slots \ {d}) \cup {[d EXCEPT !.booked_by = student]},
          modified_count |-> IF d.booked_by = student THEN 0 ELSE 1]

\* if result.modified_count: 'Slot booked!' else 'Slot already booked or unavailable.'
BookFlash_Always(modified_count) == "Slot booked!"

BookFlash(modified_count) ==
    IF modified_count # 0 THEN "Slot booked!"
    ELSE "Slot already booked or unavailable."

\* delete_one({'_id': oid(slot_id), 'alumni_id': sid(al)})
DeleteOneSlot_IdOnly(slots, slot_id, al) ==
    {d \in slots : d.id # slot_id}

DeleteOneSlot(slots, slot_id, al) ==
    {d \in slots : ~(d.id = slot_id /\ d.alumni_id = al)}

\* ------------------------------------------------- mentorship: the actions

\* alumni_mentorship, action add_slot
AddSlot(u, raw_time, link) ==
    LET al == get_alumni_profile(u)
        t  == parse_dt(raw_time) IN
    /\ al # None
    /\ t # NoTime
    /\ next_slot_id <= MaxSlots
    /\ mentorship_slots' = mentorship_slots \cup
          {[id |-> next_slot_id, alumni_id |-> al, available_time |-> t,
            meeting_link |-> link, booked_by |-> None]}
    /\ next_slot_id' = next_slot_id + 1
    /\ UNCHANGED <<book_req, profileVars, appVars, schedVars>>

\* alumni_mentorship, action delete_slot:
\* delete_one({'_id': oid(slot_id), 'alumni_id': sid(al)})
DeleteSlot(u, slot_id) ==
    LET al == get_alumni_profile(u) IN
    /\ al # None
    /\ mentorship_slots' = DeleteOneSlot(mentorship_slots, slot_id, al)
    /\ UNCHANGED <<next_slot_id, book_req, profileVars, appVars, schedVars>>

\* book_mentorship_slot up to its store operation: s = get_student()
BookStart(r, u, slot_id) ==
    /\ book_req[r].pc = "idle"
    /\ book_req' = [book_req EXCEPT ![r] =
          [pc |-> IF get_student(u) # None THEN "got_student" ELSE "done",
           student |-> get_student(u), slot_id |-> slot_id, flash |-> None]]
    /\ UNCHANGED <<mentorship_slots, next_slot_id, profileVars, appVars, schedVars>>

\* book_mentorship_slot: the conditional update_one and the flash of its result
BookUpdate(r) ==
    /\ book_req[r].pc = "got_student"
    /\ LET res == UpdateOneBook(mentorship_slots, book_req[r].slot_id,
                                book_req[r].student) IN
       /\ mentorship_slots' = res.docs
       /\ book_req' = [book_req EXCEPT ![r].pc = "done",
                                       ![r].flash = BookFlash(res.modified_count)]
    /\ UNCHANGED <<next_slot_id, profileVars, appVars, schedVars>>

\* ------------------------------------------------------------- eligibility

\* doc.get(f) or 0: a missing field, None and 0 all give 0
GetOr0(doc, f) == IF f \in DOMAIN doc THEN doc[f] ELSE 0

\* doc.get('branch'): None when the field is missing
GetBranch(doc) == IF "branch" \in DOMAIN doc THEN doc.branch ELSE None

\* student_drives: is_eligible = branch in allowed and cgpa >= min_cgpa and
\* backlogs <= max_backlogs (cgpa in tenths of a point)
isEligible_Strict(s, d) ==
    /\ GetBranch(s) \in (IF "allowed_branches" \in DOMAIN d
                         THEN d.allowed_branches ELSE {})
    /\ GetOr0(s, "cgpa") > GetOr0(d, "min_cgpa")
    /\ GetOr0(s, "backlogs") <= GetOr0(d, "max_backlogs")

isEligible(s, d) ==
    /\ GetBranch(s) \in (IF "allowed_branches" \in DOMAIN d
                         THEN d.allowed_branches ELSE {})
    /\ GetOr0(s, "cgpa") >= GetOr0(d, "min_cgpa")
    /\ GetOr0(s, "backlogs") <= GetOr0(d, "max_backlogs")

\* admin_criteria: db.students.find({'branch': {'$in': allowed},
\* 'cgpa': {'$gte': min_cgpa}, 'backlogs': {'$lte': max_bl}}); a document
\* without the field matches neither $in nor a comparison
MongoMatch_NoBacklogs(doc, allowed, min_cgpa, max_bl) ==
    /\ "branch" \in DOMAIN doc /\ doc.branch \in allowed
    /\ "cgpa" \in DOMAIN doc /\ doc.cgpa >= min_cgpa

MongoMatch(doc, allowed, min_cgpa, max_bl) ==
    /\ "branch" \in DOMAIN doc /\ doc.branch \in allowed
    /\ "cgpa" \in DOMAIN doc /\ doc.cgpa >= min_cgpa
    /\ "backlogs" \in DOMAIN doc /\ doc.backlogs <= max_bl

\* admin_criteria: the students of the eligible list for drive_doc
CriteriaEligible(studs, drive_doc) ==
    LET allowed  == IF "allowed_branches" \in DOMAIN drive_doc
                    THEN drive_doc.allowed_branches ELSE {}
        min_cgpa == GetOr0(drive_doc, "min_cgpa")
        max_bl   == GetOr0(drive_doc, "max_backlogs") IN
    {u \in DOMAIN studs : MongoMatch(studs[u], allowed, min_cgpa, max_bl)}

\* student_drives: one entry per drive, with its is_eligible flag
EligibleDrives(s, drvs) ==
    {[id |-> d.id, is_eligible |-> isEligible(s, d)] : d \in drvs}

\* student_dashboard: the drives not completed for which the test holds
DashboardDrives(s, drvs) ==
    {d.id : d \in {e \in drvs : e.status # "completed" /\ isEligible(s, e)}}

\* float(x or default) and int(x or default) of a form value, cgpa in tenths
ParseNumber(raw) ==
    CASE raw = "0" -> 0 [] raw = "1" -> 1 [] raw = "2" -> 2
      [] raw = "5.9" -> 59 [] raw = "6.0" -> 60 [] raw = "7.0" -> 70

NumberOr(raw, default) == IF raw = "" THEN default ELSE ParseNumber(raw)

\* --------------------------------------------------- applications: the store

NoId == 0              \* find_one's None, as an id

\* find_one({'student_id': sid(s), 'drive_id': drive_id}): the id of the
\* first matching document, or None
FindApplication(apps, student_id, drive_id) ==
    LET m == {a \in apps : a.student_id = student_id /\ a.drive_id = drive_id} IN
    IF m = {} THEN NoId ELSE FirstDoc(m).id

\* student_apply after the lookup: if existing, nothing is written; else
\* insert_one({student_id, drive_id, 'status': 'applied', 'applied_at': now})
ApplyWrite_Reset(apps, existing, id, student_id, drive_id, now) ==
    {a \in apps : a.id # existing} \cup
        {[id |-> IF existing # NoId THEN existing ELSE id,
          student_id |-> student_id, drive_id |-> drive_id,
          status |-> "applied", applied_at |-> now]}

ApplyWrite_Pending(apps, existing, id, student_id, drive_id, now) ==
    IF existing # NoId THEN apps
    ELSE apps \cup {[id |-> id, student_id |-> student_id, drive_id |-> drive_id,
                     status |-> "pending", applied_at |-> now]}

ApplyWrite(apps, existing, id, student_id, drive_id, now) ==
    IF existing # NoId THEN apps
    ELSE apps \cup {[id |-> id, student_id |-> student_id, drive_id |-> drive_id,
                     status |-> "applied", applied_at |-> now]}

ApplyFlash(existing) ==
    IF existing # NoId THEN "You already applied to this drive."
    ELSE "Applied successfully!"

\* admin_update_status: valid = (...)
ValidStatuses ==
    {"applied", "aptitude_cleared", "interview_scheduled", "selected", "rejected"}

\* update_one({'_id': oid(app_id)}, {'$set': {'status': status}})
SetStatusById(apps, app_id, status) ==
    {IF a.id = app_id THEN [a EXCEPT !.status = status] ELSE a : a \in apps}

\* admin_update_status: if status in valid: update_one(...)
UpdateStatusWrite_NoCheck(apps, app_id, status) ==
    SetStatusById(apps, app_id, status)

UpdateStatusWrite(apps, app_id, status) ==
    IF status \in ValidStatuses THEN SetStatusById(apps, app_id, status)
    ELSE apps

\* ------------------------------------------------- applications: the actions

\* student_apply up to its lookup: s = get_student()
ApplyStart(r, u, drive_id) ==
    /\ apply_req[r].pc = "idle"
    /\ apply_req' = [apply_req EXCEPT ![r] =
          [pc |-> IF get_student(u) # None THEN "got_student" ELSE "done",
           student |-> get_student(u), drive_id |-> drive_id, existing |-> NoId,
           flash |-> IF get_student(u) # None THEN None
                     ELSE "Complete your profile first."]]
    /\ UNCHANGED <<bookVars, profileVars, applications, next_app_id, schedVars>>

\* student_apply: existing = db.applications.find_one(...)
ApplyFind(r) ==
    /\ apply_req[r].pc = "got_student"
    /\ apply_req' = [apply_req EXCEPT ![r].pc = "found",
          ![r].existing = FindApplication(applications, apply_req[r].student,
                                          apply_req[r].drive_id)]
    /\ UNCHANGED <<bookVars, profileVars, applications, next_app_id, schedVars>>

\* student_apply: the branch on existing, the insert and the flash
ApplyFinish(r, now) ==
    LET q == apply_req[r] IN
    /\ q.pc = "found"
    /\ q.existing # NoId \/ next_app_id <= MaxApps
    /\ applications' = ApplyWrite(applications, q.existing, next_app_id,
                                  q.student, q.drive_id, now)
    /\ next_app_id' = IF q.existing # NoId THEN next_app_id ELSE next_app_id + 1
    /\ apply_req' = [apply_req EXCEPT ![r].pc = "done",
                                      ![r].flash = ApplyFlash(q.existing)]
    /\ UNCHANGED <<bookVars, profileVars, schedVars>>

\* admin_update_status: one store operation, guarded by status in valid
AdminUpdateStatus(app_id, status) ==
    /\ applications' = UpdateStatusWrite(applications, app_id, status)
    /\ UNCHANGED <<bookVars, profileVars, next_app_id, apply_req, schedVars>>

\* ----------------------------------------------------- interviews: the store

\* str.strip() on a string held as a sequence of characters
RECURSIVE LStrip(_)
LStrip(str) ==
    IF str # <<>> /\ Head(str) = " " THEN LStrip(Tail(str)) ELSE str

RECURSIVE RStrip(_)
RStrip(str) ==
    IF str # <<>> /\ str[Len(str)] = " "
    THEN RStrip(SubSeq(str, 1, Len(str) - 1)) ELSE str

Strip(str) == RStrip(LStrip(str))

\* the overlap check: find_one({'student_id': student_id, 'time_slot': time_slot})
FindConflict_SameDrive(ivs, drive_id, student_id, time_slot) ==
    \E iv \in ivs : /\ iv.student_id = student_id
                    /\ iv.time_slot = time_slot
                    /\ iv.drive_id = drive_id

FindConflict_AnyStudent(ivs, drive_id, student_id, time_slot) ==
    \E iv \in ivs : iv.time_slot = time_slot

FindConflict(ivs, drive_id, student_id, time_slot) ==
    \E iv \in ivs : iv.student_id = student_id /\ iv.time_slot = time_slot

\* update_one({'drive_id', 'student_id'}, {'$set': {...}}, upsert=True): the
\* first matching document is overwritten; with none, one is inserted
UpsertInterview_Insert(ivs, id, drive_id, student_id, time_slot, venue, notes) ==
    ivs \cup {[id |-> id, drive_id |-> drive_id, student_id |-> student_id,
               time_slot |-> time_slot, venue |-> venue, notes |-> notes]}

UpsertInterview(ivs, id, drive_id, student_id, time_slot, venue, notes) ==
    LET m == {iv \in ivs : iv.drive_id = drive_id /\ iv.student_id = student_id} IN
    IF m = {}
    THEN ivs \cup {[id |-> id, drive_id |-> drive_id, student_id |-> student_id,
                    time_slot |-> time_slot, venue |-> venue, notes |-> notes]}
    ELSE LET old == FirstDoc(m) IN
         (ivs \ {old}) \cup {[old EXCEPT !.time_slot = time_slot,
                                         !.venue = venue, !.notes = notes]}

\* whether the upsert inserts (and so draws a fresh id)
UpsertInserts(ivs, drive_id, student_id) ==
    ~ \E iv \in ivs : iv.drive_id = drive_id /\ iv.student_id = student_id

\* db.applications.update_one({'student_id', 'drive_id'},
\*                            {'$set': {'status': 'interview_scheduled'}})
SetInterviewScheduled_AnyDrive(apps, student_id, drive_id) ==
    LET m == {a \in apps : a.student_id = student_id} IN
    IF m = {} THEN apps
    ELSE LET a == FirstDoc(m) IN
         (apps \ {a}) \cup {[a EXCEPT !.status = "interview_scheduled"]}

SetInterviewScheduled_AllOfDrive(apps, student_id, drive_id) ==
    {IF a.drive_id = drive_id
     THEN [a EXCEPT !.status = "interview_scheduled"] ELSE a : a \in apps}

SetInterviewScheduled_Upsert(apps, student_id, drive_id) ==
    LET m == {a \in apps : a.student_id = student_id /\ a.drive_id = drive_id} IN
    IF m = {}
    THEN apps \cup {[id |-> NoId, student_id |-> student_id,
                     drive_id |-> drive_id, status |-> "interview_scheduled",
                     applied_at |-> NoTime]}
    ELSE LET a == FirstDoc(m) IN
         (apps \ {a}) \cup {[a EXCEPT !.status = "interview_scheduled"]}

SetInterviewScheduled(apps, student_id, drive_id) ==
    LET m == {a \in apps : a.student_id = student_id /\ a.drive_id = drive_id} IN
    IF m = {} THEN apps
    ELSE LET a == FirstDoc(m) IN
         (apps \ {a}) \cup {[a EXCEPT !.status = "interview_scheduled"]}

\* --------------------------------------------------- interviews: the actions

\* admin_scheduler, action schedule, as one step (requests one after another)
AdminSchedule_WriteOnConflict(drive_id, student_id, raw_time, raw_venue, raw_notes) ==
    LET time_slot == parse_dt(raw_time)
        venue     == Strip(raw_venue)
        notes     == Strip(raw_notes) IN
    /\ IF time_slot = NoTime
       THEN /\ flash' = None
            /\ UNCHANGED <<interviews, next_interview_id, applications>>
       ELSE IF FindConflict(interviews, drive_id, student_id, time_slot)
       THEN /\ flash' = "This student already has an interview at that time."
            /\ applications' =
                  SetInterviewScheduled(applications, student_id, drive_id)
            /\ UNCHANGED <<interviews, next_interview_id>>
       ELSE /\ UpsertInserts(interviews, drive_id, student_id)
                  => next_interview_id <= MaxInterviews
            /\ interviews' = UpsertInterview(interviews, next_interview_id,
                                 drive_id, student_id, time_slot, venue, notes)
            /\ next_interview_id' =
                  IF UpsertInserts(interviews, drive_id, student_id)
                  THEN next_interview_id + 1 ELSE next_interview_id
            /\ applications' =
                  SetInterviewScheduled(applications, student_id, drive_id)
            /\ flash' = "Interview scheduled!"
    /\ form' = [action |-> "schedule", drive_id |-> drive_id,
                student_id |-> student_id, time_slot |-> raw_time,
                venue |-> raw_venue, notes |-> raw_notes]
    /\ UNCHANGED <<bookVars, profileVars, next_app_id, apply_req>>

AdminSchedule(drive_id, student_id, raw_time, raw_venue, raw_notes) ==
    LET time_slot == parse_dt(raw_time)
        venue     == Strip(raw_venue)
        notes     == Strip(raw_notes) IN
    /\ IF time_slot = NoTime
       THEN /\ flash' = None
            /\ UNCHANGED <<interviews, next_interview_id, applications>>
       ELSE IF FindConflict(interviews, drive_id, student_id, time_slot)
       THEN /\ flash' = "This student already has an interview at that time."
            /\ UNCHANGED <<interviews, next_interview_id, applications>>
       ELSE /\ UpsertInserts(interviews, drive_id, student_id)
                  => next_interview_id <= MaxInterviews
            /\ interviews' = UpsertInterview(interviews, next_interview_id,
                                 drive_id, student_id, time_slot, venue, notes)
            /\ next_interview_id' =
                  IF UpsertInserts(interviews, drive_id, student_id)
                  THEN next_interview_id + 1 ELSE next_interview_id
            /\ applications' =
                  SetInterviewScheduled(applications, student_id, drive_id)
            /\ flash' = "Interview scheduled!"
    /\ form' = [action |-> "schedule", drive_id |-> drive_id,
                student_id |-> student_id, time_slot |-> raw_time,
                venue |-> raw_venue, notes |-> raw_notes]
    /\ UNCHANGED <<bookVars, profileVars, next_app_id, apply_req>>

\* admin_scheduler, action schedule, as the steps of one of several requests
\* in flight: the form is read and the overlap check made
SchedStart(r, drive_id, student_id, raw_time, raw_venue, raw_notes) ==
    LET time_slot == parse_dt(raw_time) IN
    /\ sched_req[r].pc = "idle"
    /\ sched_req' = [sched_req EXCEPT ![r] =
          [pc |-> IF time_slot = NoTime
                     \/ FindConflict(interviews, drive_id, student_id, time_slot)
                  THEN "done" ELSE "upsert",
           drive_id |-> drive_id, student_id |-> student_id,
           time_slot |-> time_slot, venue |-> Strip(raw_venue),
           notes |-> Strip(raw_notes),
           flash |-> IF time_slot # NoTime
                        /\ FindConflict(interviews, drive_id, student_id, time_slot)
                     THEN "This student already has an interview at that time."
                     ELSE None]]
    /\ UNCHANGED <<students, drives, rendered, faqVars, mailer, bookVars,
                   appVars, schedVars>>

\* db.interviews.update_one(..., upsert=True)
SchedUpsert(r) ==
    LET q == sched_req[r] IN
    /\ q.pc = "upsert"
    /\ UpsertInserts(interviews, q.drive_id, q.student_id)
          => next_interview_id <= MaxInterviews
    /\ interviews' = UpsertInterview(interviews, next_interview_id, q.drive_id,
                          q.student_id, q.time_slot, q.venue, q.notes)
    /\ next_interview_id' = IF UpsertInserts(interviews, q.drive_id, q.student_id)
                            THEN next_interview_id + 1 ELSE next_interview_id
    /\ sched_req' = [sched_req EXCEPT ![r].pc = "status"]
    /\ UNCHANGED <<students, drives, rendered, faqVars, mailer, bookVars,
                   appVars, form, flash>>

\* db.applications.update_one(...) and the flash
SchedSetStatus(r) ==
    LET q == sched_req[r] IN
    /\ q.pc = "status"
    /\ applications' = SetInterviewScheduled(applications, q.student_id, q.drive_id)
    /\ sched_req' = [sched_req EXCEPT ![r].pc = "done",
                                      ![r].flash = "Interview scheduled!"]
    /\ UNCHANGED <<students, drives, rendered, faqVars, mailer, bookVars,
                   next_app_id, apply_req, schedVars>>

\* admin_scheduler, action delete: delete_one({'_id': oid(interview_id)})
AdminRemoveInterview_Revert(interview_id) ==
    /\ interviews' = {iv \in interviews : iv.id # interview_id}
    /\ applications' =
          {IF \E iv \in interviews : /\ iv.id = interview_id
                                     /\ iv.student_id = a.student_id
                                     /\ iv.drive_id = a.drive_id
           THEN [a EXCEPT !.status = "applied"] ELSE a : a \in applications}
    /\ form' = [action |-> "delete", interview_id |-> interview_id]
    /\ flash' = "Interview removed."
    /\ UNCHANGED <<bookVars, profileVars, next_app_id, apply_req, next_interview_id>>

AdminRemoveInterview(interview_id) ==
    /\ interviews' = {iv \in interviews : iv.id # interview_id}
    /\ form' = [action |-> "delete", interview_id |-> interview_id]
    /\ flash' = "Interview removed."
    /\ UNCHANGED <<bookVars, profileVars, appVars, next_interview_id>>

\* ---------------------------------------------------------------- skill gap

\* str.lower(), on the characters the requests use
UpperLetters == <<"A", "B", "C", "D", "E", "F", "G", "H", "I", "J", "K", "L", "M",
                  "N", "O", "P", "Q", "R", "S", "T", "U", "V", "W", "X", "Y", "Z">>
LowerLetters == <<"a", "b", "c", "d", "e", "f", "g", "h", "i", "j", "k", "l", "m",
                  "n", "o", "p", "q", "r", "s", "t", "u", "v", "w", "x", "y", "z">>

LowerChar(c) ==
    IF \E i \in 1..Len(UpperLetters) : UpperLetters[i] = c
    THEN LowerLetters[CHOOSE i \in 1..Len(UpperLetters) : UpperLetters[i] = c]
    ELSE c

Lower(str) == [i \in 1..Len(str) |-> LowerChar(str[i])]

\* sk.strip().lower()
Normalize(str) == Lower(Strip(str))

\* user_skills_raw.split(','): the pieces between commas, empty ones too
RECURSIVE Split(_)
Split(str) ==
    IF \A i \in 1..Len(str) : str[i] # ","
    THEN <<str>>
    ELSE LET i == CHOOSE k \in 1..Len(str) :
                     str[k] = "," /\ \A j \in 1..(k - 1) : str[j] # "," IN
         <<SubSeq(str, 1, i - 1)>> \o Split(SubSeq(str, i + 1, Len(str)))

\* [sk.strip().lower() for sk in pieces if sk.strip()]
RECURSIVE UserSkills_NoLower(_)
UserSkills_NoLower(pieces) ==
    IF pieces = <<>> THEN <<>>
    ELSE IF Strip(Head(pieces)) = <<>> THEN UserSkills_NoLower(Tail(pieces))
    ELSE <<Strip(Head(pieces))>> \o UserSkills_NoLower(Tail(pieces))

RECURSIVE UserSkills(_)
UserSkills(pieces) ==
    IF pieces = <<>> THEN <<>>
    ELSE IF Strip(Head(pieces)) = <<>> THEN UserSkills(Tail(pieces))
    ELSE <<Normalize(Head(pieces))>> \o UserSkills(Tail(pieces))

\* [sk for sk in required if sk in user_sk], and with keep FALSE if not in
RECURSIVE ListFilter(_, _, _)
ListFilter(required, user_sk, keep) ==
    IF required = <<>> THEN <<>>
    ELSE LET here == \E i \in 1..Len(user_sk) : user_sk[i] = Head(required) IN
         (IF here = keep THEN <<Head(required)>> ELSE <<>>)
             \o ListFilter(Tail(required), user_sk, keep)

\* int(len(matched) / len(required) * 100) if required else 0: the float
\* quotient times 100, truncated; for lists of fewer than 50 skills the
\* float result truncates to the integer quotient of matched * 100
Percent(matched, required) ==
    IF required = <<>> THEN 0
    ELSE (Len(matched) * 100) \div Len(required)

\* role_doc.get('required_skills', [])
RequiredSkills(role_doc) ==
    IF "required_skills" \in DOMAIN role_doc THEN role_doc.required_skills
    ELSE <<>>

\* skill_gap: the result of a request whose role exists
SkillGapResult(role_doc, user_skills_raw) ==
    LET required == [i \in 1..Len(RequiredSkills(role_doc)) |->
                        Normalize(RequiredSkills(role_doc)[i])]
        user_sk  == UserSkills(Split(user_skills_raw))
        matched  == ListFilter(required, user_sk, TRUE)
        missing  == ListFilter(required, user_sk, FALSE) IN
    [role |-> role_doc.job_role, required |-> required, matched |-> matched,
     missing |-> missing, pct |-> Percent(matched, required)]

\* db.market_skills: skills as stored, some capitalised or padded, one role
\* without the field
MarketSkills ==
    {[id |-> "r1", job_role |-> "Data Analyst",
      required_skills |-> <<<<"A">>, <<" ", "b">>, <<"c">>>>],
     [id |-> "r2", job_role |-> "DevOps Engineer",
      required_skills |-> <<<<"B">>, <<"a">>>>],
     [id |-> "r3", job_role |-> "UI/UX Designer"],
     [id |-> "r4", job_role |-> "ML Engineer",
      required_skills |-> <<<<"a">>, <<"A", " ">>>>]}

\* skill_gap, POST
SkillGap(role_id, user_skills_raw) ==
    LET found == {r \in MarketSkills : r.id = role_id} IN
    /\ form' = [action |-> "skill_gap", role_id |-> role_id,
                user_skills |-> user_skills_raw]
    /\ rendered' =
          IF found = {}
          THEN [page |-> "skill_gap", has_result |-> FALSE]
          ELSE [page |-> "skill_gap", has_result |-> TRUE,
                result |-> SkillGapResult(CHOOSE r \in found : TRUE,
                                          user_skills_raw)]
    /\ UNCHANGED <<students, drives, faqVars, mailer, sched_req, bookVars, appVars, interviews,
                   next_interview_id, flash>>

\* ------------------------------------------------------------------ chatbot

\* needle in hay, on strings
Contains(hay, needle) ==
    \E i \in 0..(Len(hay) - Len(needle)) :
        \A j \in 1..Len(needle) : hay[i + j] = needle[j]

\* str.split(): the words between runs of blanks
RECURSIVE Words(_)
Words(str) ==
    IF str = <<>> THEN <<>>
    ELSE IF Head(str) = " " THEN Words(Tail(str))
    ELSE LET n == IF \A i \in 1..Len(str) : str[i] # " " THEN Len(str)
                  ELSE (CHOOSE k \in 1..Len(str) :
                            str[k] = " " /\ \A j \in 1..(k - 1) : str[j] # " ") - 1 IN
         <<SubSeq(str, 1, n)>> \o Words(SubSeq(str, n + 1, Len(str)))

\* for kw in keywords.split(','): if kw.strip() and kw.strip().lower() in
\* query: score += 3
RECURSIVE KeywordScore(_, _)
KeywordScore(pieces, query) ==
    IF pieces = <<>> THEN 0
    ELSE (IF Strip(Head(pieces)) # <<>> /\ Contains(query, Normalize(Head(pieces)))
          THEN 3 ELSE 0) + KeywordScore(Tail(pieces), query)

\* for word in question.lower().split(): if len(word) > 3 and word in query:
\* score += 1
RECURSIVE WordScore(_, _)
WordScore(words, query) ==
    IF words = <<>> THEN 0
    ELSE (IF Len(Head(words)) > 3 /\ Contains(query, Head(words)) THEN 1 ELSE 0)
             + WordScore(Tail(words), query)

\* faq.get('keywords') or ''
KeywordsOf(faq) == IF "keywords" \in DOMAIN faq THEN faq.keywords ELSE <<>>

Score(faq, query) ==
    KeywordScore(Split(KeywordsOf(faq)), query)
        + WordScore(Words(Lower(faq.question)), query)

\* best_match, best_score = None, 0
NoMatch == [found |-> FALSE, answer |-> <<>>, score |-> 0]

\* the loop over db.faqs.find(): if score > best_score, the entry replaces
\* the best so far
RECURSIVE BestScan_LastMax(_, _, _)
BestScan_LastMax(list, query, best) ==
    IF list = <<>> THEN best
    ELSE LET score == Score(Head(list), query) IN
         BestScan_LastMax(Tail(list), query,
             IF score >= best.score /\ score > 0
             THEN [found |-> TRUE, answer |-> Head(list).answer, score |-> score]
             ELSE best)

RECURSIVE BestScan(_, _, _)
BestScan(list, query, best) ==
    IF list = <<>> THEN best
    ELSE LET score == Score(Head(list), query) IN
         BestScan(Tail(list), query,
             IF score > best.score
             THEN [found |-> TRUE, answer |-> Head(list).answer, score |-> score]
             ELSE best)

\* db.faqs.find(): the documents in the order of their insertion
RECURSIVE FaqList(_)
FaqList(docs) ==
    IF docs = {} THEN <<>>
    ELSE <<FirstDoc(docs)>> \o FaqList(docs \ {FirstDoc(docs)})

\* the fixed replies (the pictographs at their ends left out, the bullets
\* written as -)
PleaseType == <<"Please type a message.">>
Greeting == <<"Hello! I am PlacementBot. Ask me about cutoffs, drives, resume, or referrals!">>
Welcome == <<"You're welcome! Best of luck!">>
Goodbye == <<"Goodbye! All the best!">>
NotSure == <<"I'm not sure about that. Try asking about:\n- CGPA cutoffs\n- Interview schedule\n- How to apply\n- Resume download\n- Alumni referrals">>

GreetingWords ==
    {<<"h", "i">>,
     <<"h", "e", "l", "l", "o">>,
     <<"h", "e", "y">>,
     <<"g", "o", "o", "d", " ", "m", "o", "r", "n", "i", "n", "g">>,
     <<"g", "o", "o", "d", " ", "e", "v", "e", "n", "i", "n", "g">>}
ThankWord == <<"t", "h", "a", "n", "k">>
ByeWord == <<"b", "y", "e">>

\* the reply to a query that is not empty
Reply(list, query) ==
    LET best == BestScan(list, query, NoMatch) IN
    IF best.found /\ best.answer # <<>> /\ best.score > 0 THEN best.answer
    ELSE IF \E g \in GreetingWords : Contains(query, g) THEN Greeting
    ELSE IF Contains(query, ThankWord) THEN Welcome
    ELSE IF Contains(query, ByeWord) THEN Goodbye
    ELSE NotSure

\* chatbot_ask
ChatbotAsk(message) ==
    LET query == Normalize(message) IN
    /\ form' = [action |-> "ask", message |-> message]
    /\ rendered' = [page |-> "chatbot",
                    reply |-> IF query = <<>> THEN PleaseType
                              ELSE Reply(FaqList(faqs), query)]
    /\ UNCHANGED <<students, drives, faqVars, mailer, sched_req, bookVars, appVars, interviews,
                   next_interview_id, flash>>

\* admin_faqs, action add
AdminFaqAdd(raw_question, raw_answer, raw_keywords) ==
    /\ next_faq_id <= MaxFaqs
    /\ IF Strip(raw_question) # <<>> /\ Strip(raw_answer) # <<>>
       THEN /\ faqs' = faqs \cup {[id |-> next_faq_id,
                                   question |-> Strip(raw_question),
                                   answer |-> Strip(raw_answer),
                                   keywords |-> Strip(raw_keywords)]}
            /\ next_faq_id' = next_faq_id + 1
       ELSE UNCHANGED faqVars
    /\ form' = [action |-> "add"]
    /\ rendered' = [page |-> "faqs"]
    /\ UNCHANGED <<students, drives, mailer, sched_req, bookVars, appVars, interviews,
                   next_interview_id, flash>>

\* admin_faqs, action delete
AdminFaqDelete(faq_id) ==
    /\ faqs' = {f \in faqs : f.id # faq_id}
    /\ form' = [action |-> "delete"]
    /\ rendered' = [page |-> "faqs"]
    /\ UNCHANGED <<students, drives, next_faq_id, mailer, sched_req, bookVars, appVars, interviews,
                   next_interview_id, flash>>

\* admin_faqs, action update: the answer is set, whatever it is
AdminFaqUpdate(faq_id, raw_answer) ==
    /\ faqs' = {IF f.id = faq_id THEN [f EXCEPT !.answer = Strip(raw_answer)]
                ELSE f : f \in faqs}
    /\ form' = [action |-> "update"]
    /\ rendered' = [page |-> "faqs"]
    /\ UNCHANGED <<students, drives, next_faq_id, mailer, sched_req, bookVars, appVars, interviews,
                   next_interview_id, flash>>

\* ------------------------------------------------- eligibility: the actions

\* the ids db.drives hands out, in order
DriveIdPool == <<"d1", "d2", "d3", "d4">>

\* student_profile, POST: $set of the fields (those eligibility reads)
StudentProfile(u, branch, raw_cgpa, raw_backlogs) ==
    /\ students' = [students EXCEPT ![u] =
                       [branch |-> branch, cgpa |-> NumberOr(raw_cgpa, 0),
                        backlogs |-> NumberOr(raw_backlogs, 0)]]
    /\ rendered' = [page |-> "profile"]
    /\ UNCHANGED <<drives, faqVars, mailer, sched_req, bookVars, appVars, schedVars>>

\* admin_drives, action create (company and job role always filled in)
AdminCreateDrive(branches, raw_min_cgpa, raw_max_backlogs) ==
    /\ Cardinality(drives) < MaxDrives
    /\ IF branches = {}
       THEN UNCHANGED drives
       ELSE drives' = drives \cup
              {[id |-> DriveIdPool[Cardinality(drives) + 1],
                company_name |-> "Initech", job_role |-> "Analyst",
                allowed_branches |-> branches,
                min_cgpa |-> NumberOr(raw_min_cgpa, 60),
                max_backlogs |-> NumberOr(raw_max_backlogs, 0),
                status |-> "upcoming"]}
    /\ rendered' = [page |-> "admin_drives"]
    /\ UNCHANGED <<students, faqVars, mailer, sched_req, bookVars, appVars, schedVars>>

\* student_drives
StudentDrives(u) ==
    /\ rendered' = [page |-> "drives", student |-> u,
                    eligible_drives |-> EligibleDrives(students[get_student(u)], drives)]
    /\ UNCHANGED <<students, drives, faqVars, mailer, sched_req, bookVars, appVars, schedVars>>

\* student_dashboard
StudentDashboard(u) ==
    /\ rendered' = [page |-> "dashboard", student |-> u,
                    eligible_drives |-> DashboardDrives(students[get_student(u)], drives)]
    /\ UNCHANGED <<students, drives, faqVars, mailer, sched_req, bookVars, appVars, schedVars>>

\* admin_criteria, POST with action filter
AdminCriteria(drive_id) ==
    /\ rendered' =
          LET found == {d \in drives : d.id = drive_id} IN
          [page |-> "criteria", drive_id |-> drive_id,
           selected |-> found # {}, notified |-> FALSE,
           eligible |-> IF found = {} THEN {}
                        ELSE CriteriaEligible(students,
                                              CHOOSE d \in found : TRUE)]
    /\ UNCHANGED <<students, drives, faqVars, mailer, sched_req, bookVars, appVars, schedVars>>

\* db.students.find(): the documents in the order of registration
StudentOrder == <<"s1", "s2", "s3">>

\* for e in eligible: try: mail.send(msg); sent += 1; except Exception: pass
\* (fails: the recipients whose send raises)
RECURSIVE NotifyLoop_AbortOnFailure(_, _)
NotifyLoop_AbortOnFailure(eligible, fails) ==
    IF eligible = <<>> THEN <<>>
    ELSE IF Head(eligible) \in fails
    THEN <<[to |-> Head(eligible), ok |-> FALSE]>>
    ELSE <<[to |-> Head(eligible), ok |-> TRUE]>>
             \o NotifyLoop_AbortOnFailure(Tail(eligible), fails)

RECURSIVE NotifyLoop(_, _)
NotifyLoop(eligible, fails) ==
    IF eligible = <<>> THEN <<>>
    ELSE <<[to |-> Head(eligible), ok |-> Head(eligible) \notin fails]>>
             \o NotifyLoop(Tail(eligible), fails)

\* sent: one more for every send that went through
SentCount(sends) == Cardinality({i \in 1..Len(sends) : sends[i].ok})

NotifyFlash(sent) ==
    "Notifications sent to " \o ToString(sent) \o " eligible students."

\* admin_criteria, POST with action notify
AdminNotify(drive_id, fails) ==
    LET found    == {d \in drives : d.id = drive_id}
        In(u)    == u \in CriteriaEligible(students, CHOOSE d \in found : TRUE)
        eligible == IF found = {} THEN <<>> ELSE SelectSeq(StudentOrder, In)
        sends    == NotifyLoop(eligible, fails) IN
    /\ form' = [action |-> "notify", drive_id |-> drive_id]
    /\ rendered' = [page |-> "criteria", drive_id |-> drive_id,
                    selected |-> found # {}, notified |-> found # {},
                    eligible |-> {eligible[i] : i \in 1..Len(eligible)}]
    /\ IF found = {}
       THEN UNCHANGED <<mailer, flash>>
       ELSE /\ mailer' = sends
            /\ flash' = NotifyFlash(SentCount(sends))
    /\ UNCHANGED <<students, drives, faqVars, sched_req, bookVars, appVars,
                   interviews, next_interview_id>>

\* ------------------------------------------------ drives: status and delete

\* update_one({'_id': oid(drive_id)}, {'$set': {'status': status}})
SetDriveStatus(drvs, drive_id, status) ==
    {IF d.id = drive_id THEN [d EXCEPT !.status = status] ELSE d : d \in drvs}

\* admin_drives, action update_status: the form's status is stored as posted
AdminDriveUpdateStatus(drive_id, status) ==
    /\ drives' = SetDriveStatus(drives, drive_id, status)
    /\ form' = [action |-> "update_status", drive_id |-> drive_id,
                status |-> status]
    /\ flash' = "Status updated."
    /\ rendered' = [page |-> "admin_drives"]
    /\ UNCHANGED <<students, faqVars, mailer, sched_req, bookVars, appVars,
                   interviews, next_interview_id>>

\* admin_drives, action delete: delete_one({'_id': oid(drive_id)}) on db.drives
\* and on nothing else
AdminDeleteDrive_Cascade(drive_id) ==
    /\ drives' = {d \in drives : d.id # drive_id}
    /\ applications' = {a \in applications : a.drive_id # drive_id}
    /\ interviews' = {iv \in interviews : iv.drive_id # drive_id}
    /\ form' = [action |-> "delete_drive", drive_id |-> drive_id]
    /\ flash' = "Drive deleted."
    /\ rendered' = [page |-> "admin_drives"]
    /\ UNCHANGED <<students, faqVars, mailer, sched_req, bookVars,
                   next_app_id, apply_req, next_interview_id>>

AdminDeleteDrive(drive_id) ==
    /\ drives' = {d \in drives : d.id # drive_id}
    /\ form' = [action |-> "delete_drive", drive_id |-> drive_id]
    /\ flash' = "Drive deleted."
    /\ rendered' = [page |-> "admin_drives"]
    /\ UNCHANGED <<students, faqVars, mailer, sched_req, bookVars, appVars,
                   interviews, next_interview_id>>

\* ------------------------------------------------------------- the listings

\* db.users: the name each student registered under
UserName(s) ==
    CASE s = "s1" -> "Asha"
      [] s = "s2" -> "Ravi"
      [] OTHER    -> "Meena"

\* find(...).sort(field, direction): every order of the documents in which
\* the field ascends (direction 1) or descends (-1); the store returns
\* documents of equal value in any order
SortedListings(docs, field, direction) ==
    LET n == Cardinality(docs) IN
    {seq \in [1..n -> docs] :
        /\ \A i, j \in 1..n : i # j => seq[i] # seq[j]
        /\ \A i, j \in 1..n :
              i < j => direction * seq[i][field] <= direction * seq[j][field]}

\* u['name'] if u else '?', with s = db.students.find_one({'_id': student_id})
\* and u the user of s
StudentNameOf(studs, student_id) ==
    IF student_id \in DOMAIN studs THEN UserName(student_id) ELSE "?"

\* d[field] if d else '?', with d = db.drives.find_one({'_id': drive_id})
DriveFieldOf(drvs, drive_id, field) ==
    LET found == {d \in drvs : d.id = drive_id} IN
    IF found # {} THEN (CHOOSE d \in found : TRUE)[field] ELSE "?"

\* one entry of admin_scheduler's interviews list
InterviewRow(iv, studs, drvs) ==
    [id |-> iv.id,
     student_name |-> StudentNameOf(studs, iv.student_id),
     company_name |-> DriveFieldOf(drvs, iv.drive_id, "company_name"),
     job_role |-> DriveFieldOf(drvs, iv.drive_id, "job_role"),
     time_slot |-> iv.time_slot, venue |-> iv.venue, notes |-> iv.notes]

\* one entry of admin_applications' list
ApplicationRow(a, studs, drvs) ==
    [id |-> a.id,
     student_name |-> StudentNameOf(studs, a.student_id),
     branch |-> IF a.student_id \in DOMAIN studs
                   /\ "branch" \in DOMAIN studs[a.student_id]
                THEN studs[a.student_id].branch ELSE "",
     cgpa |-> IF a.student_id \in DOMAIN studs
              THEN GetOr0(studs[a.student_id], "cgpa") ELSE 0,
     company_name |-> DriveFieldOf(drvs, a.drive_id, "company_name"),
     job_role |-> DriveFieldOf(drvs, a.drive_id, "job_role"),
     status |-> a.status, applied_at |-> a.applied_at]

\* one entry of student_applications' list (of the drive's fields, those the
\* drive documents here hold); iv is the candidate's slot for the drive
StudentApplicationRow(a, drvs, ivs) ==
    LET m == {iv \in ivs : iv.student_id = a.student_id
                           /\ iv.drive_id = a.drive_id} IN
    [company_name |-> DriveFieldOf(drvs, a.drive_id, "company_name"),
     job_role |-> DriveFieldOf(drvs, a.drive_id, "job_role"),
     status |-> a.status, applied_at |-> a.applied_at,
     interview_time |-> IF m # {} THEN FirstDoc(m).time_slot ELSE NoTime,
     interview_venue |-> IF m # {} THEN FirstDoc(m).venue ELSE <<>>]

\* admin_scheduler, GET: db.interviews.find().sort('time_slot', 1), one entry
\* for each slot
AdminSchedulerPage ==
    /\ \E order \in SortedListings(interviews, "time_slot", 1) :
          rendered' = [page |-> "scheduler",
                       interviews |-> [i \in DOMAIN order |->
                           InterviewRow(order[i], students, drives)]]
    /\ UNCHANGED <<students, drives, faqVars, mailer, sched_req, bookVars,
                   appVars, schedVars>>

\* admin_applications: db.applications.find().sort('applied_at', DESCENDING)
AdminApplications ==
    /\ \E order \in SortedListings(applications, "applied_at", -1) :
          rendered' = [page |-> "applications",
                       applications |-> [i \in DOMAIN order |->
                           ApplicationRow(order[i], students, drives)]]
    /\ UNCHANGED <<students, drives, faqVars, mailer, sched_req, bookVars,
                   appVars, schedVars>>

\* student_applications: the session student's Applications, newest first
StudentApplications(u) ==
    LET s    == get_student(u)
        mine == IF s = None THEN {}
                ELSE {a \in applications : a.student_id = s} IN
    /\ \E order \in SortedListings(mine, "applied_at", -1) :
          rendered' = [page |-> "student_applications", student |-> u,
                       apps |-> [i \in DOMAIN order |->
                           StudentApplicationRow(order[i], drives, interviews)]]
    /\ UNCHANGED <<students, drives, faqVars, mailer, sched_req, bookVars,
                   appVars, schedVars>>

\* ---------------------------------------------------------- specifications

\* the documents the state after registration and drive creation holds
StudentDocs ==
    [s \in Students |->
        CASE s = "s1" -> [branch |-> "CSE", cgpa |-> 60, backlogs |-> 1]
          [] s = "s2" -> [branch |-> "CSE", cgpa |-> 59, backlogs |-> 0]
          [] OTHER    -> [profile_complete |-> FALSE]]

DriveDocs ==
    {[id |-> "d1", company_name |-> "Acme", job_role |-> "Engineer",
      allowed_branches |-> {"CSE", "IT"}, min_cgpa |-> 60,
      max_backlogs |-> 1, status |-> "upcoming"],
     [id |-> "d2", company_name |-> "Globex", job_role |-> "Tester",
      allowed_branches |-> {"ECE", "CSE"}, min_cgpa |-> 70,
      max_backlogs |-> 0, status |-> "upcoming"]}

DriveIds == {d.id : d \in DriveDocs}
Applicants == {"s1", "s2"}
ClockValues == {1, 2}
RawDetails == {<<<<"A">>, <<>>>>, <<<<" ", "B", " ">>, <<" ", "n">>>>}

NoPage == [page |-> None]

IdleSchedReq == [pc |-> "idle", drive_id |-> None, student_id |-> None,
                 time_slot |-> NoTime, venue |-> <<>>, notes |-> <<>>,
                 flash |-> None]

\* db.faqs after seed_db and the deletion of six of its eight entries
SeedFaqs ==
    {[id |-> 1,
      question |-> <<"W", "h", "a", "t", " ", "i", "s", " ", "t", "h", "e",
                     " ", "m", "i", "n", "i", "m", "u", "m", " ", "C", "G",
                     "P", "A", " ", "r", "e", "q", "u", "i", "r", "e", "d",
                     "?">>,
      answer |-> <<"The minimum CGPA varies by company. Most companies require at least 6.0 CGPA. Check each drive for exact requirements.">>,
      keywords |-> <<"c", "g", "p", "a", ",", "m", "i", "n", "i", "m", "u",
                     "m", ",", "c", "u", "t", "o", "f", "f", ",", "c", "r",
                     "i", "t", "e", "r", "i", "a">>],
     [id |-> 6,
      question |-> <<"H", "o", "w", " ", "d", "o", " ", "I", " ", "d", "o",
                     "w", "n", "l", "o", "a", "d", " ", "m", "y", " ", "r",
                     "e", "s", "u", "m", "e", "?">>,
      answer |-> <<"Go to Student Dashboard → Resume Wizard → Click Download PDF.">>,
      keywords |-> <<"r", "e", "s", "u", "m", "e", ",", "d", "o", "w", "n",
                     "l", "o", "a", "d", ",", "p", "d", "f", ",", "c", "v">>]}
FirstFaqId == 9

\* chatbot messages as typed
Messages ==
    {<<"h", "o", "w", " ", "d", "o", " ", "i", " ", "d", "o", "w", "n",
       "l", "o", "a", "d", " ", "m", "y", " ", "r", "e", "s", "u", "m",
       "e">>,
     <<"a", "s", "d", "k", "j", "h">>,
     <<"H", "i">>,
     <<"t", "h", "a", "n", "k", "s">>,
     <<"b", "y", "e">>,
     <<" ">>,
     <<"r", "e", "s", "u", "m", "e">>,
     <<"t", "h", "a", "n", "k", "s", " ", "f", "o", "r", " ", "t", "h",
       "e", " ", "r", "e", "s", "u", "m", "e">>}

\* question, answer and keywords of the add form; answers as one piece of
\* text with blanks around it
FaqAddInputs ==
    {<<<<"H", "e", "l", "p">>, <<"See the Resume Wizard.">>, <<" ", "R", "e", "s", "u", "m", "e", " ", ",", ",">>>>,
     <<<<"T", "h", "a", "n", "k", "s">>, <<"Glad to help.">>, <<>>>>,
     <<<<"H", "e", "l", "p">>, <<" ">>, <<"r", "e", "s", "u", "m", "e">>>>}

FaqUpdateInputs == {<<" ", "Ask the placement cell.">>, <<" ">>}

IdleBookReq == [pc |-> "idle", student |-> None, slot_id |-> 0, flash |-> None]
IdleApplyReq == [pc |-> "idle", student |-> None, drive_id |-> None,
                 existing |-> NoId, flash |-> None]

\* users registered, drives created, every other collection empty
Init ==
    /\ mentorship_slots = {}
    /\ next_slot_id = 1
    /\ book_req = [r \in BookReqs |-> IdleBookReq]
    /\ students = StudentDocs
    /\ drives = DriveDocs
    /\ applications = {}
    /\ next_app_id = 1
    /\ apply_req = [r \in ApplyReqs |-> IdleApplyReq]
    /\ interviews = {}
    /\ next_interview_id = 1
    /\ form = [action |-> None]
    /\ flash = None
    /\ rendered = NoPage
    /\ mailer = <<>>
    /\ sched_req = [r \in SchedReqs |-> IdleSchedReq]
    /\ faqs = SeedFaqs
    /\ next_faq_id = FirstFaqId

NextBook ==
    \/ \E u \in Mentors, raw \in RawTimes, l \in MeetingLinks : AddSlot(u, raw, l)
    \/ \E u \in Mentors, k \in 1..MaxSlots : DeleteSlot(u, k)
    \/ \E r \in BookReqs, u \in Students, k \in 1..(next_slot_id - 1) :
          BookStart(r, u, k)      \* an id some listing has shown
    \/ \E r \in BookReqs : BookUpdate(r)

\* Mentors manage their slots while students' booking requests interleave.
SpecBook == Init /\ [][NextBook]_vars

\* the slot ids of the booking URL: every id the store can hand out, and
\* one it never hands out
ClaimSlotIds == 1..(MaxSlots + 1)

NextClaim ==
    \/ \E u \in Mentors : AddSlot(u, "2024-05-01T10:00", "meet/1")
    \/ \E u \in Mentors, k \in 1..MaxSlots : DeleteSlot(u, k)
    \/ \E r \in BookReqs, u \in Applicants, k \in ClaimSlotIds : BookStart(r, u, k)
    \/ \E r \in BookReqs : BookUpdate(r)

\* Booking requests for any slot id, issued before, between and after the
\* mentors' additions and deletions.
SpecClaim == Init /\ [][NextClaim]_vars

NextApply ==
    \/ \E r \in ApplyReqs, u \in Applicants, d \in DriveIds : ApplyStart(r, u, d)
    \/ \E r \in ApplyReqs : ApplyFind(r)
    \/ \E r \in ApplyReqs, now \in ClockValues : ApplyFinish(r, now)
    \/ \E id \in 1..MaxApps, st \in ValidStatuses \cup {"offered"} :
          AdminUpdateStatus(id, st)

\* Students' apply requests interleave with each other and with the
\* administrator's status updates.
SpecApply == Init /\ [][NextApply]_vars

NextSched ==
    \/ \E d \in DriveIds, s \in Applicants, raw \in RawTimes, det \in RawDetails :
          AdminSchedule(d, s, raw, det[1], det[2])
    \/ \E id \in 1..MaxInterviews : AdminRemoveInterview(id)

\* the state after student s1 has applied to drive d1
InitSched ==
    /\ mentorship_slots = {}
    /\ next_slot_id = 1
    /\ book_req = [r \in BookReqs |-> IdleBookReq]
    /\ students = StudentDocs
    /\ drives = DriveDocs
    /\ applications = ApplyWrite({}, NoId, 1, "s1", "d1", 1)
    /\ next_app_id = 2
    /\ apply_req = [r \in ApplyReqs |-> IdleApplyReq]
    /\ interviews = {}
    /\ next_interview_id = 1
    /\ form = [action |-> None]
    /\ flash = None
    /\ rendered = NoPage
    /\ mailer = <<>>
    /\ sched_req = [r \in SchedReqs |-> IdleSchedReq]
    /\ faqs = SeedFaqs
    /\ next_faq_id = FirstFaqId

\* The administrator's scheduler requests, run one after another.
SpecSched == InitSched /\ [][NextSched]_vars

\* the form values of the status select, and one that is not in the list
StatusInputs == ValidStatuses \cup {"offered"}

LifeRawTimes == {"2024-05-01T10:00", ""}
LifeDetails == {<<<<"A">>, <<>>>>}

NextLife ==
    \/ \E d \in DriveIds, s \in Applicants, raw \in LifeRawTimes, det \in LifeDetails :
          AdminSchedule(d, s, raw, det[1], det[2])
    \/ \E id \in 1..MaxInterviews : AdminRemoveInterview(id)
    \/ \E id \in 1..MaxApps, st \in StatusInputs : AdminUpdateStatus(id, st)

\* the state after students s1 and s2 have applied to drive d1
InitLife ==
    /\ mentorship_slots = {}
    /\ next_slot_id = 1
    /\ book_req = [r \in BookReqs |-> IdleBookReq]
    /\ students = StudentDocs
    /\ drives = DriveDocs
    /\ applications = ApplyWrite(ApplyWrite({}, NoId, 1, "s1", "d1", 1),
                                 NoId, 2, "s2", "d1", 2)
    /\ next_app_id = 3
    /\ apply_req = [r \in ApplyReqs |-> IdleApplyReq]
    /\ interviews = {}
    /\ next_interview_id = 1
    /\ form = [action |-> None]
    /\ flash = None
    /\ rendered = NoPage
    /\ mailer = <<>>
    /\ sched_req = [r \in SchedReqs |-> IdleSchedReq]
    /\ faqs = SeedFaqs
    /\ next_faq_id = FirstFaqId

\* The administrator's scheduler requests and status updates, run one after
\* another, over two Applications and two pairs without one.
SpecLife == InitLife /\ [][NextLife]_vars

Branches == {"CSE", "ME"}
RawCgpas == {"", "5.9", "6.0"}
RawBacklogs == {"", "1"}
BranchLists == {{}, {"CSE", "IT"}}
RawMinCgpas == {"", "0"}
RawMaxBacklogs == {"", "1"}

NextElig ==
    \/ \E u \in Applicants, b \in Branches, c \in RawCgpas, k \in RawBacklogs :
          StudentProfile(u, b, c, k)
    \/ \E bs \in BranchLists, c \in RawMinCgpas, k \in RawMaxBacklogs :
          AdminCreateDrive(bs, c, k)
    \/ \E u \in Students : StudentDrives(u)
    \/ \E u \in Students : StudentDashboard(u)
    \/ \E n \in 1..MaxDrives : AdminCriteria(DriveIdPool[n])

\* the state after the students have registered: no profile saved, no drive
InitElig ==
    /\ mentorship_slots = {}
    /\ next_slot_id = 1
    /\ book_req = [r \in BookReqs |-> IdleBookReq]
    /\ students = [s \in Students |-> [profile_complete |-> FALSE]]
    /\ drives = {}
    /\ applications = {}
    /\ next_app_id = 1
    /\ apply_req = [r \in ApplyReqs |-> IdleApplyReq]
    /\ interviews = {}
    /\ next_interview_id = 1
    /\ form = [action |-> None]
    /\ flash = None
    /\ rendered = NoPage
    /\ mailer = <<>>
    /\ sched_req = [r \in SchedReqs |-> IdleSchedReq]
    /\ faqs = SeedFaqs
    /\ next_faq_id = FirstFaqId

\* Profiles saved, drives created and the eligibility pages rendered.
SpecElig == InitElig /\ [][NextElig]_vars

SkillChars == {"a", "B", " ", ","}
RawSkillInputs == UNION {[1..n -> SkillChars] : n \in 0..MaxRawLen}
RoleIds == {"r1", "r2", "r3", "r4", "r9"}

NextSkill == \E r \in RoleIds, raw \in RawSkillInputs : SkillGap(r, raw)

\* Skill-gap requests over every short input and every stored role.
SpecSkill == Init /\ [][NextSkill]_vars

NextChat ==
    \/ \E m \in Messages : ChatbotAsk(m)
    \/ \E a \in FaqAddInputs : AdminFaqAdd(a[1], a[2], a[3])
    \/ \E id \in 1..MaxFaqs : AdminFaqDelete(id)
    \/ \E id \in 1..MaxFaqs, a \in FaqUpdateInputs : AdminFaqUpdate(id, a)

\* The chatbot over every knowledge base the FAQ form can produce.
SpecChat == Init /\ [][NextChat]_vars

NotifyCgpas == {"5.9", "6.0"}

NextNotify ==
    \/ \E u \in Students, c \in NotifyCgpas : StudentProfile(u, "CSE", c, "")
    \/ \E d \in DriveIds \cup {"d9"}, fails \in SUBSET Students :
          AdminNotify(d, fails)

\* Profiles saved and notification batches sent for the two drives.
SpecNotify == Init /\ [][NextNotify]_vars

RaceStudents == Applicants
RaceRawTimes == {"2024-05-01T10:00", "2024-05-01T11:00", ""}
RaceStatuses == {"selected"}

NextRace ==
    \/ \E r \in SchedReqs, d \in DriveIds, s \in RaceStudents,
          raw \in RaceRawTimes, det \in LifeDetails :
          SchedStart(r, d, s, raw, det[1], det[2])
    \/ \E r \in SchedReqs : SchedUpsert(r)
    \/ \E r \in SchedReqs : SchedSetStatus(r)
    \/ \E id \in 1..MaxApps, st \in RaceStatuses : AdminUpdateStatus(id, st)

\* Schedule requests of several administrators in flight at once, next to
\* status updates, from the state in which s1 has applied to d1.
SpecRace == InitSched /\ [][NextRace]_vars

\* values of the posted status field: the three lifecycle names, one that is
\* none of them, and a form without the field
DriveStatusInputs == {"upcoming", "ongoing", "completed", "cancelled", None}

NextDrive ==
    \/ \E bs \in BranchLists : AdminCreateDrive(bs, "", "")
    \/ \E n \in 1..MaxDrives, st \in DriveStatusInputs :
          AdminDriveUpdateStatus(DriveIdPool[n], st)

\* Drives created and their status updated, from the state without drives.
SpecDrive == InitElig /\ [][NextDrive]_vars

\* the candidates of the schedule form are two students and an id that no
\* document of db.students carries
NextList ==
    \/ \E d \in DriveIds, s \in {"s1", "s2", "s9"}, det \in LifeDetails :
          AdminSchedule(d, s, "2024-05-01T10:00", det[1], det[2])
    \/ \E d \in DriveIds : AdminDeleteDrive(d)
    \/ AdminSchedulerPage
    \/ AdminApplications
    \/ \E u \in Applicants : StudentApplications(u)

\* Slots scheduled, drives deleted and the three listings rendered, from the
\* state in which s1 and s2 have applied to d1.
SpecList == InitLife /\ [][NextList]_vars

NextStatus ==
    \/ \E r \in ApplyReqs, u \in Applicants, d \in DriveIds : ApplyStart(r, u, d)
    \/ \E r \in ApplyReqs : ApplyFind(r)
    \/ \E r \in ApplyReqs : ApplyFinish(r, 1)
    \/ \E id \in 1..MaxApps, st \in {"selected", "offered"} :
          AdminUpdateStatus(id, st)
    \/ \E s \in Applicants, det \in LifeDetails :
          AdminSchedule("d1", s, "2024-05-01T10:00", det[1], det[2])

\* The three writers of db.applications together: students' apply requests
\* interleaved with the administrator's status updates and schedule calls.
SpecStatus == Init /\ [][NextStatus]_vars

\* ------------------------------------------------------ mentorship booking

Booked == "Slot booked!"
AlreadyBooked == "Slot already booked or unavailable."

\* the booking requests issued for slot k
BookReqsOn(k) ==
    {r \in BookReqs : book_req[r].pc # "idle" /\ book_req[r].slot_id = k}

DistinctCandidates(rs) ==
    \A r1, r2 \in rs : r1 # r2 => book_req[r1].student # book_req[r2].student

\* C1: when two or more distinct candidates have issued claims for one slot
\* that still exists, and all of them have returned, in whatever order their
\* updates reached the store, exactly one reported success, every other one
\* reported the already-booked failure, and the slot's claimant is the
\* candidate whose request succeeded.
C1_ExactlyOneClaimWins ==
    \A d \in mentorship_slots :
        LET rs == BookReqsOn(d.id) IN
        (/\ Cardinality(rs) >= 2
         /\ \A r \in rs : book_req[r].pc = "done"
         /\ DistinctCandidates(rs))
        => \E w \in rs :
              /\ book_req[w].flash = Booked
              /\ d.booked_by = book_req[w].student
              /\ \A r \in rs \ {w} : book_req[r].flash = AlreadyBooked

\* every request was issued for the same slot by a different candidate, all
\* have returned, and the highest-numbered request is the one that won
C1_Witness ==
    \E d \in mentorship_slots :
        /\ BookReqsOn(d.id) = BookReqs
        /\ \A r \in BookReqs : book_req[r].pc = "done"
        /\ DistinctCandidates(BookReqs)
        /\ book_req[MaxBookReqs].flash = Booked

\* C2: the store step of a claim on a slot whose claimant is non-empty reports
\* the already-booked failure and leaves the slots unchanged, whoever the
\* caller is, the holder included.
C2_ClaimOnBookedSlotFails ==
    [][\A r \in BookReqs :
          (/\ book_req[r].pc = "got_student"
           /\ book_req'[r].pc = "done"
           /\ \E d \in mentorship_slots :
                 d.id = book_req[r].slot_id /\ d.booked_by # None)
          => /\ book_req'[r].flash = AlreadyBooked
             /\ mentorship_slots' = mentorship_slots]_vars

\* the holder of a slot has claimed it again and was refused
C2_Witness ==
    \E d \in mentorship_slots, r1, r2 \in BookReqs :
        /\ r1 # r2
        /\ book_req[r1].slot_id = d.id /\ book_req[r2].slot_id = d.id
        /\ book_req[r1].student = d.booked_by /\ book_req[r2].student = d.booked_by
        /\ book_req[r1].flash = Booked
        /\ book_req[r2].flash = AlreadyBooked

\* C3: no step changes or clears the claimant of a claimed slot: after any
\* step, a slot that had a claimant is gone or has the same claimant (ids are
\* never reused, so this holds of every later state).
C3_ClaimantNeverChanges ==
    [][\A d \in mentorship_slots :
          d.booked_by # None
          => \A e \in mentorship_slots' : e.id = d.id => e.booked_by = d.booked_by]_vars

\* a claimed slot on which another candidate's later claim has run, while its
\* owner has deleted a different slot
C3_Witness ==
    \E d \in mentorship_slots, r \in BookReqs :
        /\ d.booked_by # None
        /\ book_req[r].pc = "done"
        /\ book_req[r].slot_id = d.id
        /\ book_req[r].student # d.booked_by
        /\ book_req[r].flash = AlreadyBooked
        /\ next_slot_id > 2
        /\ Cardinality(mentorship_slots) = 1

\* ------------------------------------------------------------ applications

AlreadyApplied == "You already applied to this drive."

HasApplication(student_id, drive_id) ==
    \E a \in applications : a.student_id = student_id /\ a.drive_id = drive_id

\* C4: in every reachable state there is at most one Application document per
\* (candidate, opportunity) pair, also when two apply requests of one
\* candidate for one opportunity interleave between lookup and insert.
C4_AtMostOneApplicationPerPair ==
    \A a, b \in applications :
        (a.student_id = b.student_id /\ a.drive_id = b.drive_id) => a = b

\* C5: an apply request whose lookup runs when its (candidate, opportunity)
\* pair already has an Application finds it, and its remaining step writes
\* nothing: no second document, and the status and creation timestamp of
\* every document stay as they were, whatever status the document has.
C5_RepeatApplyIsNoOp ==
    [][\A r \in ApplyReqs :
          LET q == apply_req[r] IN
          /\ (/\ q.pc = "got_student"
              /\ apply_req'[r].pc = "found"
              /\ HasApplication(q.student, q.drive_id))
             => /\ apply_req'[r].existing # NoId
                /\ applications' = applications
          /\ (/\ q.pc = "found"
              /\ apply_req'[r].pc = "done"
              /\ q.existing # NoId)
             => /\ applications' = applications
                /\ apply_req'[r].flash = AlreadyApplied]_vars

\* a repeated apply has returned for a pair whose one Application is selected
C5_Witness ==
    \E r \in ApplyReqs, a \in applications :
        /\ apply_req[r].pc = "done"
        /\ apply_req[r].flash = AlreadyApplied
        /\ apply_req[r].existing = a.id
        /\ a.student_id = apply_req[r].student
        /\ a.drive_id = apply_req[r].drive_id
        /\ a.status = "selected"
        /\ Cardinality(applications) = 1

\* the drive document an application refers to, if there is one
DriveOf(drive_id) == {d \in drives : d.id = drive_id}

\* C6: every step that inserts an Application inserts it for a candidate who
\* is eligible for the opportunity at that time (branch allowed, cgpa at
\* least min_cgpa, backlogs at most max_backlogs).
C6_CreatedOnlyWhenEligible ==
    [][\A a \in applications' :
          (~ \E b \in applications : b.id = a.id)
          => \E d \in DriveOf(a.drive_id) : isEligible(students[a.student_id], d)]_vars

\* ------------------------------------------------------ interview scheduling

Conflict == "This student already has an interview at that time."
Scheduled == "Interview scheduled!"

\* the step is a schedule request whose time parses
ScheduleStep == form'.action = "schedule" /\ parse_dt(form'.time_slot) # NoTime

\* the slots the candidate of the request holds at the requested time
SlotsAtRequestedTime(ivs, f) ==
    {iv \in ivs : iv.student_id = f.student_id
                  /\ iv.time_slot = parse_dt(f.time_slot)}

SlotsOfPair(ivs, student_id, drive_id) ==
    {iv \in ivs : iv.student_id = student_id /\ iv.drive_id = drive_id}

\* C7: with schedule requests run one after another, a request for a
\* candidate and opportunity O2 at a time at which the candidate holds a slot
\* for another opportunity is rejected as a conflict and writes nothing, and a
\* request at a time at which the candidate holds no slot succeeds and leaves
\* the candidate with a slot for O2 at that time.
C7_ConflictIffSlotAtThatTime ==
    [][ScheduleStep =>
          /\ (\E iv \in SlotsAtRequestedTime(interviews, form') :
                 iv.drive_id # form'.drive_id)
             => /\ flash' = Conflict
                /\ interviews' = interviews
          /\ SlotsAtRequestedTime(interviews, form') = {}
             => /\ flash' = Scheduled
                /\ \E iv \in SlotsAtRequestedTime(interviews', form') :
                      iv.drive_id = form'.drive_id]_vars

\* the candidate holds a slot for O1 at 10:00; the request for O2 at 10:00 was
\* rejected; the candidate holds no slot for O2
C7_Witness ==
    /\ form.action = "schedule"
    /\ flash = Conflict
    /\ \E iv \in SlotsAtRequestedTime(interviews, form) : iv.drive_id # form.drive_id
    /\ SlotsOfPair(interviews, form.student_id, form.drive_id) = {}

\* C8: after any sequence of schedule and remove requests run one at a time,
\* no two InterviewSlots of one candidate have the same time, whatever their
\* opportunities.
C8_NoTwoSlotsAtOneTime ==
    \A iv1, iv2 \in interviews :
        (iv1.student_id = iv2.student_id /\ iv1.time_slot = iv2.time_slot)
        => iv1 = iv2

\* a candidate holds slots for two opportunities at different times, and the
\* request to move one of them to the time of the other was rejected
C8_Witness ==
    /\ form.action = "schedule"
    /\ flash = Conflict
    /\ \E iv1, iv2 \in interviews :
          /\ iv1.student_id = form.student_id /\ iv1.drive_id = form.drive_id
          /\ iv2.student_id = form.student_id /\ iv2.drive_id # form.drive_id
          /\ iv2.time_slot = parse_dt(form.time_slot)
          /\ iv1.time_slot # iv2.time_slot

\* C9: a schedule request is rejected as a conflict only when the candidate
\* holds a slot at that exact time for an opportunity other than the one
\* being scheduled; in particular a request for a pair that has a slot, at
\* that slot's time, is accepted.
C9_ConflictOnlyWithOtherOpportunity ==
    [][(ScheduleStep /\ flash' = Conflict)
          => \E iv \in SlotsAtRequestedTime(interviews, form') :
                iv.drive_id # form'.drive_id]_vars

\* C10: there is at most one InterviewSlot per (candidate, opportunity) pair,
\* and a successful schedule request for a pair that has a slot leaves that
\* same document, with the requested time, location and notes, as the pair's
\* only slot.
C10_OneSlotPerPair ==
    /\ [](\A iv1, iv2 \in interviews :
            (iv1.student_id = iv2.student_id /\ iv1.drive_id = iv2.drive_id)
            => iv1 = iv2)
    /\ [][(/\ ScheduleStep
           /\ flash' = Scheduled
           /\ SlotsOfPair(interviews, form'.student_id, form'.drive_id) # {})
             => \E old \in SlotsOfPair(interviews, form'.student_id, form'.drive_id) :
                   /\ SlotsOfPair(interviews', form'.student_id, form'.drive_id) =
                         {[old EXCEPT !.time_slot = parse_dt(form'.time_slot),
                                      !.venue = Strip(form'.venue),
                                      !.notes = Strip(form'.notes)]}
                   /\ Cardinality(interviews') = Cardinality(interviews)]_vars

\* the last request succeeded for a pair whose document is older than another
\* one, so it overwrote that document: it holds the request's time and the
\* stripped location and notes, and it is the pair's only slot
C10_Witness ==
    /\ form.action = "schedule"
    /\ flash = Scheduled
    /\ form.venue = <<" ", "B", " ">>
    /\ \E iv \in interviews, other \in interviews :
          /\ iv.id < other.id
          /\ SlotsOfPair(interviews, form.student_id, form.drive_id) = {iv}
          /\ iv.time_slot = parse_dt(form.time_slot)
          /\ iv.venue = <<"B">>
          /\ iv.notes = <<"n">>

\* ------------------------------------ the lifecycle under the administrator

Terminal == {"selected", "rejected"}

AppsOfPair(apps, student_id, drive_id) ==
    {a \in apps : a.student_id = student_id /\ a.drive_id = drive_id}

\* the step is a scheduler request (a status update leaves the scheduler's
\* request and collection as they were)
SchedulerStep == <<interviews, next_interview_id, form, flash>>'
                     # <<interviews, next_interview_id, form, flash>>

\* the step is a schedule request that was carried out
SuccessfulSchedule == SchedulerStep /\ ScheduleStep /\ flash' = Scheduled

\* the step is a schedule request at a time at which the candidate has no slot
ConflictFreeSchedule ==
    SchedulerStep /\ ScheduleStep /\ SlotsAtRequestedTime(interviews, form') = {}

\* C11: once an Application is selected or rejected, a later successful
\* schedule request for its (candidate, opportunity) pair leaves its status
\* as it is.
C11_TerminalSurvivesSchedule ==
    [][SuccessfulSchedule =>
         \A a \in AppsOfPair(applications, form'.student_id, form'.drive_id) :
             a.status \in Terminal => a \in applications']_vars

\* the Applications whose status the step moves into interview_scheduled
Entering ==
    {a \in applications :
        /\ a.status # "interview_scheduled"
        /\ \E b \in applications' : b.id = a.id /\ b.status = "interview_scheduled"}

\* C12 as stated: an Application's status changes to interview_scheduled only
\* in a step that is a successful schedule request for its pair; no other
\* operation, the administrator's status update included, moves it there.
C12_EnteredOnlyBySchedule ==
    [][\A a \in Entering :
         /\ SuccessfulSchedule
         /\ form'.student_id = a.student_id
         /\ form'.drive_id = a.drive_id]_vars

\* C12: an Application's status changes to interview_scheduled only in a step
\* that is a successful schedule request for its pair or the administrator's
\* status update of that Application with target interview_scheduled; no
\* other scheduler request (rejected schedule, removal) moves it there.
C12_EnteredByScheduleOrUpdate ==
    [][\A a \in Entering :
         \/ /\ SuccessfulSchedule
            /\ form'.student_id = a.student_id
            /\ form'.drive_id = a.drive_id
         \/ AdminUpdateStatus(a.id, "interview_scheduled")]_vars

\* an Application is interview_scheduled although no slot was ever recorded
C12_Witness ==
    /\ next_interview_id = 1
    /\ \E a \in applications : a.status = "interview_scheduled"

\* C13: a successful schedule request for a pair that has an Application not
\* yet selected or rejected leaves that Application interview_scheduled and
\* every other Application as it was.
C13_ScheduleMovesOnlyItsApplication ==
    [][SuccessfulSchedule =>
         LET m == AppsOfPair(applications, form'.student_id, form'.drive_id) IN
         (m # {} /\ FirstDoc(m).status \notin Terminal) =>
             /\ \A b \in applications' :
                   b.id = FirstDoc(m).id => b.status = "interview_scheduled"
             /\ \A a \in applications \ {FirstDoc(m)} : a \in applications'
             /\ \A b \in applications' : \E a \in applications : a.id = b.id]_vars

\* the last request scheduled a slot for a pair whose Application is now
\* interview_scheduled, next to an Application with another status
C13_Witness ==
    /\ form.action = "schedule"
    /\ flash = Scheduled
    /\ SlotsOfPair(interviews, form.student_id, form.drive_id) # {}
    /\ \E a \in AppsOfPair(applications, form.student_id, form.drive_id) :
          a.status = "interview_scheduled"
    /\ \E a \in applications : a.status = "aptitude_cleared"

\* C14: a schedule request without conflict for a pair that has no
\* Application records the slot, reports success and leaves the set of
\* Applications unchanged.
C14_ScheduleWithoutApplication ==
    [][(/\ ConflictFreeSchedule
        /\ AppsOfPair(applications, form'.student_id, form'.drive_id) = {}) =>
         /\ flash' = Scheduled
         /\ applications' = applications
         /\ \E iv \in interviews' :
               /\ iv.student_id = form'.student_id
               /\ iv.drive_id = form'.drive_id
               /\ iv.time_slot = parse_dt(form'.time_slot)]_vars

\* a slot is recorded for the pair of the last, successful request, and the
\* pair has no Application
C14_Witness ==
    /\ form.action = "schedule"
    /\ flash = Scheduled
    /\ SlotsOfPair(interviews, form.student_id, form.drive_id) # {}
    /\ AppsOfPair(applications, form.student_id, form.drive_id) = {}

\* C15: removing an InterviewSlot deletes that slot only and leaves every
\* Application unchanged, the one the slot's scheduling set to
\* interview_scheduled included.
C15_RemoveLeavesApplications ==
    [][(SchedulerStep /\ form'.action = "delete") =>
         /\ applications' = applications
         /\ interviews' = {iv \in interviews : iv.id # form'.interview_id}
         /\ next_interview_id' = next_interview_id]_vars

\* of two recorded slots the last request removed the first and left the
\* second, and an Application is still interview_scheduled
C15_Witness ==
    /\ form.action = "delete"
    /\ form.interview_id = 1
    /\ next_interview_id = 3
    /\ Cardinality(interviews) = 1
    /\ \E a \in applications : a.status = "interview_scheduled"

\* C16: the administrator's status write sets every target of the five
\* statuses on an Application whatever its current status, and with a target
\* outside the five leaves the collection as it is.
C16_AnyToAnyWithinEnum ==
    \A a \in applications, st \in StatusInputs :
        UpdateStatusWrite(applications, a.id, st) =
            IF st \in {"applied", "aptitude_cleared", "interview_scheduled",
                       "selected", "rejected"}
            THEN (applications \ {a}) \cup {[a EXCEPT !.status = st]}
            ELSE applications

\* an Application is back at applied although a slot is recorded for its
\* pair, next to one that is selected
C16_Witness ==
    /\ \E a \in applications :
          /\ a.status = "applied"
          /\ SlotsOfPair(interviews, a.student_id, a.drive_id) # {}
    /\ \E a \in applications : a.status = "selected"

\* ---------------------------------------------------------------- eligibility

\* the candidate has saved a profile, so category, score and deficiency count
\* are recorded
Recorded(s) == {"branch", "cgpa", "backlogs"} \subseteq DOMAIN s

\* the three conditions of the claim, on recorded values
ThreeConditions(s, d) ==
    /\ Recorded(s)
    /\ s.branch \in d.allowed_branches
    /\ s.cgpa >= d.min_cgpa
    /\ s.backlogs <= d.max_backlogs

DriveById(drive_id) == CHOOSE d \in drives : d.id = drive_id

\* C17: on each of the three pages that resolve eligibility (the candidate's
\* drives list, the candidate's dashboard, the administrator's criteria
\* filter) a pair of candidate and opportunity counts as eligible exactly
\* when the candidate's category is allowed, score >= min score and
\* deficiency count <= max deficiency, thresholds included.
C17_EligibleIffThreeConditions ==
    /\ rendered.page = "drives" =>
          /\ {e.id : e \in rendered.eligible_drives} = {d.id : d \in drives}
          /\ \A e \in rendered.eligible_drives :
                e.is_eligible <=>
                    ThreeConditions(students[rendered.student], DriveById(e.id))
    /\ rendered.page = "dashboard" =>
          \A d \in drives :
              d.id \in rendered.eligible_drives <=>
                  ThreeConditions(students[rendered.student], d)
    /\ (rendered.page = "criteria" /\ rendered.selected) =>
          \A u \in Students :
              u \in rendered.eligible <=>
                  ThreeConditions(students[u], DriveById(rendered.drive_id))

\* the drives list shows as eligible a drive whose two thresholds the
\* candidate meets exactly, and as not eligible a drive of which the
\* candidate fails one threshold only
C17_Witness ==
    /\ rendered.page = "drives"
    /\ \E e \in rendered.eligible_drives :
          /\ e.is_eligible
          /\ students[rendered.student].cgpa = DriveById(e.id).min_cgpa
          /\ students[rendered.student].backlogs = DriveById(e.id).max_backlogs
    /\ \E e \in rendered.eligible_drives :
          /\ ~ e.is_eligible
          /\ students[rendered.student].cgpa >= DriveById(e.id).min_cgpa
          /\ students[rendered.student].backlogs > DriveById(e.id).max_backlogs

\* C18: the two directions agree on every pair: a candidate is in the
\* administrator's criteria result for a drive exactly when the candidate's
\* drives list marks that drive eligible, candidates without a recorded score
\* or deficiency count included.
C18_DirectionsAgree ==
    /\ (rendered.page = "criteria" /\ rendered.selected) =>
          \A u \in Students :
              u \in rendered.eligible <=>
                  [id |-> rendered.drive_id, is_eligible |-> TRUE]
                      \in EligibleDrives(students[u], drives)
    /\ rendered.page = "drives" =>
          \A e \in rendered.eligible_drives :
              e.is_eligible <=>
                  rendered.student \in CriteriaEligible(students, DriveById(e.id))

\* the criteria result of a drive with min score 0 holds a candidate with a
\* saved profile and leaves out one who recorded nothing
C18_Witness ==
    /\ rendered.page = "criteria"
    /\ rendered.selected
    /\ DriveById(rendered.drive_id).min_cgpa = 0
    /\ rendered.eligible # {}
    /\ \E u \in Students \ rendered.eligible : ~ Recorded(students[u])

\* ------------------------------------------------------------------ skill gap

\* the role of the last skill-gap request
RoleOfRequest == CHOOSE r \in MarketSkills : r.id = form.role_id

\* the candidate skills of the request: the pieces between commas that are
\* not blank
CandidateSkills(raw) ==
    LET n == Len(raw)
        pieces == {p \in (1..(n + 1)) \X (0..n) :
                     /\ p[1] <= p[2] + 1
                     /\ \A k \in p[1]..p[2] : raw[k] # ","
                     /\ (p[1] = 1 \/ raw[p[1] - 1] = ",")
                     /\ (p[2] = n \/ raw[p[2] + 1] = ",")} IN
    {SubSeq(raw, p[1], p[2]) :
        p \in {q \in pieces : \E k \in q[1]..q[2] : raw[k] # " "}}

\* C19: the coverage percent is |matched| * 100 / |required| rounded to the
\* nearest integer when the required list is not empty (2 of 3 gives 67),
\* and 0 when it is empty.
C19_PercentRounded ==
    (rendered.page = "skill_gap" /\ rendered.has_result) =>
        LET k   == Len(rendered.result.matched)
            m   == Len(rendered.result.required)
            pct == rendered.result.pct
            off == IF 100 * k >= pct * m THEN 100 * k - pct * m
                   ELSE pct * m - 100 * k IN
        IF m = 0 THEN pct = 0 ELSE 2 * off <= m

\* C20: matched and missing are disjoint subsequences of the normalized
\* required list, each in the order of that list, that together hold every
\* required token; a required token is in matched exactly when it equals the
\* trimmed, lower-cased form of some candidate skill.
C20_MatchedMissingPartition ==
    (rendered.page = "skill_gap" /\ rendered.has_result) =>
        LET stored  == RequiredSkills(RoleOfRequest)
            req     == [i \in 1..Len(stored) |-> Normalize(stored[i])]
            cand    == {Normalize(sk) : sk \in CandidateSkills(form.user_skills)}
            In(t)   == t \in cand
            Out(t)  == t \notin cand
            matched == rendered.result.matched
            missing == rendered.result.missing IN
        /\ rendered.result.required = req
        /\ matched = SelectSeq(req, In)
        /\ missing = SelectSeq(req, Out)
        /\ Len(matched) + Len(missing) = Len(req)
        /\ \A i \in 1..Len(matched), j \in 1..Len(missing) :
              matched[i] # missing[j]

\* a request that writes a skill in capitals and with blanks around it
\* matches the stored skills " b" and "A" in the stored order, and the third
\* required skill is missing
C20_Witness ==
    /\ rendered.page = "skill_gap"
    /\ rendered.has_result
    /\ form.user_skills = <<"B", ",", "a">>
    /\ rendered.result.matched = <<<<"a">>, <<"b">>>>
    /\ rendered.result.missing = <<<<"c">>>>

\* -------------------------------------------------------------------- chatbot

\* the normalized query of the last chatbot request
QueryOfRequest == Normalize(form.message)

\* the score of the claim: 3 per keyword token that is not empty and occurs
\* in the query, 1 per question word longer than 3 characters that occurs in it
ClaimScore(faq, query) ==
    LET kws   == Split(KeywordsOf(faq))
        words == Words(Lower(faq.question)) IN
    3 * Cardinality({i \in 1..Len(kws) :
                        /\ Strip(kws[i]) # <<>>
                        /\ Contains(query, Normalize(kws[i]))})
      + Cardinality({i \in 1..Len(words) :
                        Len(words[i]) > 3 /\ Contains(query, words[i])})

\* C21: the scan over the entries returns the answer of the entry with the
\* highest score (3 per keyword token in the query, 1 per question word
\* longer than 3 characters in the query), the earliest of those tied for it,
\* and nothing when no entry scores above 0.
C21_FirstHighestScoreWins ==
    (form.action = "ask" /\ QueryOfRequest # <<>>) =>
        LET list  == FaqList(faqs)
            sc(i) == ClaimScore(list[i], QueryOfRequest)
            best  == BestScan(list, QueryOfRequest, NoMatch) IN
        IF \E i \in 1..Len(list) : sc(i) > 0
        THEN /\ best.found
             /\ \E i \in 1..Len(list) :
                   /\ \A j \in 1..Len(list) : sc(j) <= sc(i)
                   /\ \A j \in 1..(i - 1) : sc(j) < sc(i)
                   /\ best.answer = list[i].answer
                   /\ best.score = sc(i)
        ELSE best = NoMatch

\* two entries with different answers tie for the highest score and the
\* reply is the answer of the earlier one
C21_Witness ==
    /\ form.action = "ask"
    /\ QueryOfRequest # <<>>
    /\ \E f \in faqs, g \in faqs :
          /\ f.id < g.id
          /\ f.answer # g.answer
          /\ ClaimScore(f, QueryOfRequest) > 0
          /\ ClaimScore(f, QueryOfRequest) = ClaimScore(g, QueryOfRequest)
          /\ \A h \in faqs :
                ClaimScore(h, QueryOfRequest) <= ClaimScore(f, QueryOfRequest)
          /\ rendered.reply = f.answer

\* C22: for a query that is not empty the reply is one of the fixed fallback
\* replies exactly when no entry scores above 0, and otherwise it is the
\* answer of the best entry, for every collection the FAQ form produces.
C22_FallbackIffNoPositiveScore ==
    (form.action = "ask" /\ QueryOfRequest # <<>>) =>
        LET positive == \E f \in faqs : ClaimScore(f, QueryOfRequest) > 0 IN
        /\ rendered.reply \in {Greeting, Welcome, Goodbye, NotSure} <=> ~ positive
        /\ positive =>
              rendered.reply = BestScan(FaqList(faqs), QueryOfRequest, NoMatch).answer

\* -------------------------------------------------------------- notifications

\* C23: a notification batch attempts one send to every eligible recipient,
\* whatever sends failed before, completes, and reports as its count the
\* number of recipients whose send did not fail.
C23_BatchSurvivesFailures ==
    (rendered.page = "criteria" /\ rendered.notified) =>
        LET recipients == {u \in Students :
                              ThreeConditions(students[u],
                                              DriveById(rendered.drive_id))}
            failed     == {i \in 1..Len(mailer) : ~ mailer[i].ok} IN
        /\ {mailer[i].to : i \in 1..Len(mailer)} = recipients
        /\ Len(mailer) = Cardinality(recipients)
        /\ flash = NotifyFlash(Cardinality(recipients) - Cardinality(failed))

\* of three recipients the send to the second failed, the third was still
\* attempted, and the count reported is 2
C23_Witness ==
    /\ rendered.page = "criteria"
    /\ rendered.notified
    /\ Len(mailer) = 3
    /\ mailer[1].ok /\ ~ mailer[2].ok /\ mailer[3].ok
    /\ flash = "Notifications sent to 2 eligible students."

\* ------------------------------------------------- schedule requests in flight

\* C24: the upsert of the InterviewSlot and the Application's transition are
\* one atomic step: once a schedule request has upserted its slot, the next
\* step taken by any request is that request's own status write.
C24_UpsertAndTransitionAtomic ==
    [][\A r \in SchedReqs :
          sched_req[r].pc = "status" => sched_req'[r].pc = "done"]_vars

\* no candidate has two slots at one time
Exclusive(ivs) ==
    \A a \in ivs, b \in ivs :
        (a.student_id = b.student_id /\ a.time_slot = b.time_slot) => a = b

\* the request's overlap check found nothing
Passed(r) ==
    /\ sched_req[r].pc \in {"upsert", "status", "done"}
    /\ sched_req[r].time_slot # NoTime
    /\ sched_req[r].flash # Conflict

\* two requests for one candidate at one time and different opportunities
RacePair(r1, r2) ==
    /\ r1 # r2
    /\ sched_req[r1].student_id = sched_req[r2].student_id
    /\ sched_req[r1].time_slot = sched_req[r2].time_slot
    /\ sched_req[r1].drive_id # sched_req[r2].drive_id

\* the slots of the request's candidate at the request's time
SlotsAtTimeOf(ivs, q) ==
    {iv \in ivs : iv.student_id = q.student_id /\ iv.time_slot = q.time_slot}

\* C27: two slots of one candidate at one time exist only after two requests
\* for that candidate and time and different opportunities both passed their
\* overlap check and both upserted; a request that passed its check is not
\* rejected afterwards and is reported as scheduled; its upsert next to a
\* slot of the other opportunity at that time leaves two slots at that time;
\* and an overlap check that runs after the other upsert rejects the request.
C27_DoubleBookingOnlyByInterleaving ==
    /\ [](~ Exclusive(interviews) =>
            \E r1 \in SchedReqs, r2 \in SchedReqs :
                /\ RacePair(r1, r2)
                /\ Passed(r1) /\ Passed(r2)
                /\ sched_req[r1].pc \in {"status", "done"}
                /\ sched_req[r2].pc \in {"status", "done"})
    /\ [][\A r \in SchedReqs :
            /\ sched_req[r].pc = "upsert" =>
                  sched_req'[r].pc \in {"upsert", "status"}
            /\ (sched_req[r].pc = "status" /\ sched_req'[r].pc = "done") =>
                  sched_req'[r].flash = Scheduled
            /\ (/\ sched_req[r].pc = "upsert" /\ sched_req'[r].pc = "status"
                /\ \E iv \in SlotsAtTimeOf(interviews, sched_req[r]) :
                      iv.drive_id # sched_req[r].drive_id) =>
                  /\ ~ Exclusive(interviews')
                  /\ \E iv \in SlotsAtTimeOf(interviews', sched_req[r]) :
                        iv.drive_id = sched_req[r].drive_id
            /\ (/\ sched_req[r].pc = "idle" /\ sched_req'[r].pc # "idle"
                /\ SlotsAtTimeOf(interviews, sched_req'[r]) # {}) =>
                  /\ sched_req'[r].pc = "done"
                  /\ sched_req'[r].flash = Conflict
                  /\ interviews' = interviews]_vars

\* both requests of a race pair are reported as scheduled and the candidate
\* has two slots at one time
C27_Witness ==
    /\ ~ Exclusive(interviews)
    /\ \E r1 \in SchedReqs, r2 \in SchedReqs :
          /\ RacePair(r1, r2)
          /\ sched_req[r1].pc = "done" /\ sched_req[r1].flash = Scheduled
          /\ sched_req[r2].pc = "done" /\ sched_req[r2].flash = Scheduled

\* ------------------------------------------------------- mentorship deletion

\* C25: a delete request for a slot removes it, claimed or not, when the
\* requesting mentor owns it, and leaves the collection as it is when the
\* requester is any other mentor.
C25_OnlyOwnerDeletes ==
    \A sl \in mentorship_slots, u \in Mentors :
        DeleteOneSlot(mentorship_slots, sl.id, get_alumni_profile(u)) =
            IF u = sl.alumni_id THEN mentorship_slots \ {sl}
            ELSE mentorship_slots

\* a slot that a candidate had claimed is gone, next to a claimed slot that
\* is still there
C25_Witness ==
    /\ \E r \in BookReqs :
          /\ book_req[r].flash = Booked
          /\ \A sl \in mentorship_slots : sl.id # book_req[r].slot_id
    /\ \E sl \in mentorship_slots : sl.booked_by # None

\* ------------------------------------------------------------ drive status

\* C26: in every reachable state the status of every drive is one of upcoming,
\* ongoing and completed, whatever drives were created and whatever status
\* updates were posted.
C26_DriveStatusInEnum ==
    \A d \in drives : d.status \in {"upcoming", "ongoing", "completed"}

\* ------------------------------------------------- rejected schedule calls

\* the step is a schedule request that the handler turns down: its time is
\* missing or does not parse, or the candidate holds a slot at that time
RejectedSchedule ==
    /\ SchedulerStep
    /\ form'.action = "schedule"
    /\ \/ parse_dt(form'.time_slot) = NoTime
       \/ SlotsAtRequestedTime(interviews, form') # {}

\* C29: a schedule call that is rejected, as a conflict or for a missing or
\* unparseable time, leaves every interview slot and every Application
\* status as it was before the call.
C29_RejectedScheduleChangesNothing ==
    [][RejectedSchedule =>
          /\ interviews' = interviews
          /\ applications' = applications
          /\ flash' # Scheduled]_vars

\* a call was turned down as a conflict while the candidate's Application to
\* the requested drive was still in state applied
C29_Witness ==
    /\ form.action = "schedule"
    /\ flash = Conflict
    /\ \E a \in applications : /\ a.student_id = form.student_id
                               /\ a.drive_id = form.drive_id
                               /\ a.status = "applied"

\* ------------------------------------------------------------ the listings

\* the step renders the named page
ListingStep(page) == rendered' # rendered /\ rendered'.page = page

\* the stored slot an entry of the interview list was made from
SlotOfRow(row) == CHOOSE iv \in interviews : iv.id = row.id

\* the candidates in the order of their identities
CandidateRank(student_id) ==
    CASE student_id = "s1" -> 1
      [] student_id = "s2" -> 2
      [] student_id = "s3" -> 3
      [] OTHER             -> 4

\* C28: the interview listing is in ascending order of time and, among slots
\* of equal time, in the order of the candidates' identities, so that one set
\* of slots is always listed in one order.
C28_ListingByTimeThenCandidate ==
    [][ListingStep("scheduler") =>
          LET rows == rendered'.interviews IN
          \A i, j \in DOMAIN rows :
              i < j =>
                 LET a == SlotOfRow(rows[i])
                     b == SlotOfRow(rows[j]) IN
                 \/ a.time_slot < b.time_slot
                 \/ /\ a.time_slot = b.time_slot
                    /\ CandidateRank(a.student_id) <= CandidateRank(b.student_id)]_vars

MissingDrive(drive_id) == ~ \E d \in drives : d.id = drive_id
MissingStudent(student_id) == student_id \notin DOMAIN students

\* the entries of a list, as a set
Entries(rows) == {rows[i] : i \in DOMAIN rows}

\* C30: deleting a drive leaves the Applications and interview slots that
\* refer to it as they were, and each of the three listings then still has
\* one entry for every record it covers, with "?" in place of the name,
\* company and role of a candidate or drive that is not found.
C30_DanglingReferencesListed ==
    [][/\ drives' # drives =>
             applications' = applications /\ interviews' = interviews
       /\ ListingStep("scheduler") =>
             LET rows == rendered'.interviews IN
             /\ Len(rows) = Cardinality(interviews)
             /\ {r.id : r \in Entries(rows)} = {iv.id : iv \in interviews}
             /\ \A r \in Entries(rows) :
                   LET iv == SlotOfRow(r) IN
                   /\ MissingDrive(iv.drive_id) <=>
                         r.company_name = "?" /\ r.job_role = "?"
                   /\ MissingStudent(iv.student_id) <=> r.student_name = "?"
       /\ ListingStep("applications") =>
             LET rows == rendered'.applications IN
             /\ Len(rows) = Cardinality(applications)
             /\ {r.id : r \in Entries(rows)} = {a.id : a \in applications}
             /\ \A r \in Entries(rows) :
                   LET a == CHOOSE x \in applications : x.id = r.id IN
                   /\ MissingDrive(a.drive_id) <=>
                         r.company_name = "?" /\ r.job_role = "?"
                   /\ MissingStudent(a.student_id) <=> r.student_name = "?"
       /\ ListingStep("student_applications") =>
             LET rows == rendered'.apps
                 mine == {a \in applications : a.student_id = rendered'.student} IN
             /\ Len(rows) = Cardinality(mine)
             /\ Cardinality({i \in DOMAIN rows : /\ rows[i].company_name = "?"
                                                  /\ rows[i].job_role = "?"})
                   = Cardinality({a \in mine : MissingDrive(a.drive_id)})]_vars

\* the interview list shows a slot whose drive was deleted and whose
\* candidate is not found, next to the Application to the deleted drive
C30_Witness ==
    /\ rendered.page = "scheduler"
    /\ \E i \in DOMAIN rendered.interviews :
          /\ rendered.interviews[i].company_name = "?"
          /\ rendered.interviews[i].student_name = "?"
    /\ \E a \in applications : MissingDrive(a.drive_id)

\* ------------------------------------------------- claims and the slot store

\* the step is the store operation of booking request r
ClaimStep(r) == book_req[r].pc = "got_student" /\ book_req'[r].pc = "done"

SlotIds(slots) == {d.id : d \in slots}

\* C31: a claim never creates a slot: the store step of a claim, on an id no
\* slot has, on a deleted slot or on a slot being deleted, reports success or
\* failure and leaves the set of stored slots as it was (untouched when the
\* id has no slot), and a slot only appears in a step no claim takes part in.
C31_ClaimNeverCreatesSlot ==
    [][/\ \A r \in BookReqs :
             ClaimStep(r) =>
                /\ SlotIds(mentorship_slots') = SlotIds(mentorship_slots)
                /\ book_req'[r].flash \in {Booked, AlreadyBooked}
                /\ book_req[r].slot_id \notin SlotIds(mentorship_slots)
                      => mentorship_slots' = mentorship_slots
       /\ SlotIds(mentorship_slots') \ SlotIds(mentorship_slots) # {}
             => /\ book_req' = book_req
                /\ SlotIds(mentorship_slots') \ SlotIds(mentorship_slots)
                      = {next_slot_id}]_vars

\* one claim has returned for an id the store never handed out, another for
\* a slot its owner had deleted before the claim reached the store, and
\* neither id has a slot
C31_Witness ==
    \E r1, r2 \in BookReqs :
        /\ book_req[r1].pc = "done" /\ book_req[r2].pc = "done"
        /\ book_req[r1].slot_id >= next_slot_id
        /\ book_req[r1].flash = AlreadyBooked
        /\ book_req[r2].slot_id < next_slot_id
        /\ book_req[r2].flash = AlreadyBooked
        /\ book_req[r1].slot_id \notin SlotIds(mentorship_slots)
        /\ book_req[r2].slot_id \notin SlotIds(mentorship_slots)

\* request r's store operation in this step reported success
SuccessfulClaim(r) == ClaimStep(r) /\ book_req'[r].flash = Booked

\* C33: a successful claim sets the claimant of the one slot it names, which
\* was unclaimed, and leaves that slot's owner, time and meeting link and
\* every other slot as they were; a slot is created unclaimed, so a slot
\* only comes to have a claimant in the step of a successful claim on it by
\* that candidate.
C33_ClaimChangesOnlyClaimant ==
    [][/\ \A r \in BookReqs :
             SuccessfulClaim(r) =>
                \E d \in mentorship_slots, e \in mentorship_slots' :
                    /\ d.id = book_req[r].slot_id
                    /\ d.booked_by = None
                    /\ e.id = d.id
                    /\ e.booked_by = book_req[r].student
                    /\ e.alumni_id = d.alumni_id
                    /\ e.available_time = d.available_time
                    /\ e.meeting_link = d.meeting_link
                    /\ mentorship_slots' \ {e} = mentorship_slots \ {d}
       /\ \A e \in mentorship_slots' :
             e.booked_by # None =>
                \/ \E d \in mentorship_slots :
                      d.id = e.id /\ d.booked_by = e.booked_by
                \/ \E r \in BookReqs :
                      /\ SuccessfulClaim(r)
                      /\ book_req[r].slot_id = e.id
                      /\ book_req[r].student = e.booked_by]_vars

\* a claim has succeeded on one slot while another slot, still unclaimed,
\* is in the store
C33_Witness ==
    \E r \in BookReqs, d1, d2 \in mentorship_slots :
        /\ book_req[r].pc = "done"
        /\ book_req[r].flash = Booked
        /\ d1.id = book_req[r].slot_id
        /\ d1.booked_by = book_req[r].student
        /\ d2.id # d1.id
        /\ d2.booked_by = None

\* ------------------------------------------------------ application status

\* C32: in every reachable state the status of every Application is one of
\* applied, aptitude_cleared, interview_scheduled, selected and rejected, and
\* an Application that a step creates has status applied.
C32_StatusInEnumCreatedApplied ==
    /\ [](\A a \in applications :
             a.status \in {"applied", "aptitude_cleared", "interview_scheduled",
                           "selected", "rejected"})
    /\ [][\A a \in applications' :
             (\A b \in applications : b.id # a.id) => a.status = "applied"]_vars

\* two Applications were created; a schedule call has moved one and a status
\* update the other
C32_Witness ==
    \E a, b \in applications :
        /\ a.status = "interview_scheduled"
        /\ b.status = "selected"
        /\ interviews # {}

====
